---------------------------- MODULE Spec2Model ----------------------------
(***************************************************************************)
(* A model of builtin/clone.c: the clone orchestrator cmd_clone, the junk  *)
(* tracker (remove_junk, remove_junk_on_signal, write_resumable_resource)  *)
(* and the primer (alt_resource) subsystem.                                *)
(*                                                                         *)
(* The main program is a sequence of steps named after the source lines    *)
(* they cover; pc is the step that runs next.  A cleanup (remove_junk) is  *)
(* an activation record on `stack'; the top record runs, the main program  *)
(* runs only while the stack is empty and exit() has not been called.      *)
(***************************************************************************)
EXTENDS Naturals, Sequences, FiniteSets, TLC

\* ------------------------------------------------------------------ bounds
\* Number of distinct fatal signals sigchain_push_common catches that the
\* model delivers (SIGINT, SIGTERM, ...).
NSig == 2
\* Number of tip references in the primer's bundle header.
MaxTips == 1
\* Number of mapped refs that have a peer name.
MaxRefs == 2

Signals == 1 .. NSig
Tips == 1 .. MaxTips
MRefs == 1 .. MaxRefs

\* ------------------------------------------------------------------ values
NoPath == "NULL"
\* Strings are sequences of characters.  A NULL struct alt_resource and an
\* absent file are marked by a symbol that is no character.
NoRes == [url |-> << "NULL" >>, filetype |-> << "NULL" >>]
\* The ResumeRecord file: absent, or its bytes (none when the file was
\* created and nothing written).
NoFile == << "ENOENT" >>
EmptyFile == << >>
LF == "\n"
PackType == << "p", "a", "c", "k" >>
Urls == {<< "u" >>}
Filetypes == {PackType, << "x" >>}
Resources == [url : Urls, filetype : Filetypes]

\* The destination paths: dir is the destination argument, dir/.git the
\* git directory (or gitfile) of a non-bare clone, real the
\* --separate-git-dir location, dir/file what a destination that is not
\* empty holds before the run.
Paths == {"dir", "dir/.git", "dir/file", "real"}

\* The ref store at the mapped refs' peer names: no ref, a ref with the
\* object id the remote advertises in this run ("adv"), or a ref with
\* another object id ("old").
NoRefs == [r \in MRefs |-> "none"]
AllAdvertised == [r \in MRefs |-> "adv"]
Stale == [r \in MRefs |-> IF r = 1 THEN "old" ELSE "adv"]

\* The primer's files under <git_dir>/objects/pack/.
PrimerFiles == {"pack", "temp", "idx", "bndl"}

VARIABLES
    pc,               \* cmd_clone: the step that runs next
    opt,              \* option_resume, option_bare, real_git_dir,
                      \* option_reference, dest state
    option_no_checkout,
    is_local,
    refs,             \* what transport_get_remote_refs returned
    complete_refs_before_fetch,
    junk_mode, junk_git_dir, junk_work_tree,
    alt_res, resource_path,
    err,              \* checkout()'s result
    handlers,         \* atexit(remove_junk) and sigchain_push_common done
    stack,            \* activations of remove_junk, innermost last
    exiting,          \* exit() has been called
    status,           \* "running", or how the process ended
    exit_code, exit_sig,
    exists,           \* destination directories on disk
    record,           \* the ResumeRecord file <git_dir>/resumable
    primer,           \* primer files on disk
    temp_refs,        \* refs/temp/<origin>/resume/temp-<tip> in the ref store
    fetched,          \* number of object transfers done
    ref_store,        \* the mapped refs' peer names in the ref store
    head_installed,   \* HEAD has been written by update_head
    config,           \* configuration keys written, and the alternates file
    warned,           \* user-facing notes emitted by remove_junk
    \* history, read by properties only
    cause,            \* how termination began: "die", "return", "signal"
    delivered,        \* signals delivered to the handler
    created,          \* destination directories this run created
    disk0,            \* the disk when the run started
    pre,              \* the disk when the first cleanup started
    checkout_ret,     \* checkout() has returned to cmd_clone
    temp_created,     \* temporary refs write_bundle_refs created in this run
    temp_deleted,     \* temporary refs clean_alt_resource_pack deleted
    cloned_local,     \* number of clone_local calls done
    mode_moves,       \* the changes of junk_mode made so far
    write_failed,     \* write_resumable_resource has died in this run
    \* the configuration an interrupted clone writes and a resume reads
    cpc,              \* the step of that walk that runs next
    copt,             \* the interrupted run's command line
    config_file,      \* the repository's configuration file, in file order
    past_info,        \* struct remote_config, filled by get_remote_info
    cfg_i,            \* entries git_config has passed to get_remote_info
    crun,             \* the run the walk is in: "fresh" or "resume"
    ref_writes,       \* what update_remote_refs and update_head wrote
    branch_config,    \* branches install_branch_config has configured
    \* clone_local over one source object directory
    lpc,              \* the step of clone_local that runs next
    lopt,             \* --shared, --local, --no-hardlinks, --reference
    lstack,           \* copy_or_link_directory's calls, innermost last
    ldest,            \* the destination's object directory
    lalt,             \* the destination's objects/info/alternates
    option_no_hardlinks,
    lstatfail,        \* source entries whose stat failed
    \* guess_dir_name applied to a repository argument, then to its result
    gpc,              \* the application that runs next
    grepo,            \* the repository argument
    gflags,           \* is_bundle, is_bare
    gdir,             \* the name guessed from grepo
    gdir2             \* the name guessed from gdir

vars == << pc, opt, option_no_checkout, is_local, refs,
           complete_refs_before_fetch, junk_mode, junk_git_dir,
           junk_work_tree, alt_res, resource_path, err, handlers,
           stack, exiting, status, exit_code, exit_sig, exists, record,
           primer, temp_refs, fetched, ref_store, head_installed,
           config, warned, cause, delivered, created, disk0, pre,
           checkout_ret, temp_created, temp_deleted, cloned_local,
           mode_moves, write_failed, cpc, copt, config_file, past_info, cfg_i,
           crun, ref_writes, branch_config, lpc, lopt, lstack, ldest, lalt,
           option_no_hardlinks, lstatfail, gpc, grepo, gflags, gdir, gdir2 >>

progVars == << opt, option_no_checkout, is_local, refs,
               complete_refs_before_fetch, alt_res, resource_path, err >>
junkVars == << junk_mode, junk_git_dir, junk_work_tree >>
procVars == << handlers, stack, exiting, status, exit_code,
               exit_sig >>
diskVars == << exists, record, primer, temp_refs, fetched, ref_store,
               head_installed, config >>
auxVars == << temp_created, temp_deleted, cloned_local >>
cfgVars == << cpc, copt, config_file, past_info, cfg_i, crun, ref_writes,
             branch_config >>
localVars == << lpc, lopt, lstack, ldest, lalt, option_no_hardlinks,
               lstatfail >>
guessVars == << gpc, grepo, gflags, gdir, gdir2 >>
\* What the clone's steps leave alone.
sideVars == << cfgVars, localVars, guessVars >>
histVars == << warned, cause, delivered, created, disk0, pre, checkout_ret,
               auxVars, mode_moves, write_failed, sideVars >>
cloneVars == << pc, progVars, junkVars, procVars, diskVars, warned, cause,
                delivered, created, disk0, pre, checkout_ret, auxVars,
                mode_moves, write_failed >>

\* ------------------------------------------------------------- the layout
\* cmd_clone, lines 1283-1296 and 1316-1320: where the work tree and the
\* git directory live.
IsBare == IF opt.resume THEN opt.past_bare ELSE opt.bare
WorkTree == IF IsBare THEN NoPath ELSE "dir"
GitDirArg == IF IsBare THEN "dir" ELSE "dir/.git"
GitDir == IF opt.separate THEN "real" ELSE GitDirArg

\* Everything at or beneath path p.
Beneath(p) == IF p = "dir" THEN {"dir", "dir/.git", "dir/file"} ELSE {p}

\* The whole disk, as a value.
Disk == [exists |-> exists, record |-> record, primer |-> primer,
         temp_refs |-> temp_refs, mapped |-> ref_store,
         head |-> head_installed, config |-> config]


\* ------------------------------------------------------------ junk tracker
\* An activation of remove_junk, started by exit() (kind "atexit") or by
\* remove_junk_on_signal (kind "signal"), and the place it has reached:
\* "switch", "open", "write", "rm_git", "rm_wt" inside remove_junk, "ret"
\* once remove_junk has returned.  An interrupted activation never
\* resumes, because the activation above it ends the process; of it only
\* "in" (inside remove_junk) or "out" is kept.
Frame(kind, sig) == [kind |-> kind, sig |-> sig, at |-> "switch"]
Top == stack[Len(stack)]
SetTop(at) == [stack EXCEPT ![Len(stack)].at = at]
Interrupted(stk) ==
    IF stk = << >> THEN stk
    ELSE [stk EXCEPT ![Len(stk)].at =
              IF stk[Len(stk)].at \in {"ret", "out"} THEN "out" ELSE "in"]
InCleanup == status = "running" /\ stack # << >>
MainRuns == status = "running" /\ stack = << >> /\ ~exiting

\* The activations that are inside remove_junk (not yet returned from it).
InRemoveJunk == {i \in 1 .. Len(stack) : stack[i].at \notin {"ret", "out"}}

\* remove_dir_recursively(path): the directories left on disk.
remove_dir_recursively(ex, p) == IF p = NoPath THEN ex ELSE ex \ Beneath(p)

\* What is left of the repository's content when the directories `ex'
\* remain: everything lives in the git directory.
Content(ex, old, empty) == IF GitDir \in ex THEN old ELSE empty

\* JunkSwitch with JUNK_LEAVE_RESUMABLE falling into the removal.
JunkSwitch_ResumableRemoved(mode) ==
    CASE mode = "JUNK_LEAVE_REPO" -> "ret"
      [] mode = "JUNK_LEAVE_ALL" -> "ret"
      [] OTHER -> "rm_git"

\* remove_junk, lines 515-528: the switch on junk_mode.
JunkSwitch(mode) ==
    CASE mode = "JUNK_LEAVE_REPO" -> "ret"
      [] mode = "JUNK_LEAVE_RESUMABLE" -> "open"
      [] mode = "JUNK_LEAVE_ALL" -> "ret"
      [] OTHER -> "rm_git"

\* remove_junk, lines 516-518: the note of JUNK_LEAVE_REPO.
JunkSwitchNote(mode) ==
    IF mode = "JUNK_LEAVE_REPO" THEN {"junk_leave_repo_msg"} ELSE {}

\* ResumableContent with the two fields in the other order.
ResumableContent_Swapped(res) ==
    res.filetype \o << LF >> \o res.url \o << LF >>

\* write_resumable_resource, line 502: strbuf_addf "%s\n%s\n".
ResumableContent(res) == res.url \o << LF >> \o res.filetype \o << LF >>

\* write_in_full at offset 0 of a file opened without O_TRUNC: bytes beyond
\* the new content stay.
WriteInFull(old, content) ==
    content \o SubSeq(old, Len(content) + 1, Len(old))

\* open(filename, O_WRONLY | O_CREAT) has no O_TRUNC: a file that is there
\* keeps its bytes, a new one is empty.
OpenCreat(rec) == IF rec = NoFile THEN EmptyFile ELSE rec

\* die() called from inside remove_junk: exit(128) runs the atexit handler,
\* unless exit() is already running, when the process just ends.
DieInCleanup ==
    /\ exit_code' = 128
    /\ write_failed' = TRUE
    /\ IF exiting
          THEN /\ status' = "exited"
               /\ UNCHANGED << stack, exiting >>
          ELSE /\ exiting' = TRUE
               /\ stack' = Append(Interrupted(stack), Frame("atexit", 0))
               /\ UNCHANGED status

CleanupSwitch ==
    /\ InCleanup /\ Top.at = "switch"
    /\ stack' = SetTop(JunkSwitch(junk_mode))
    /\ warned' = warned \cup JunkSwitchNote(junk_mode)
    /\ UNCHANGED << pc, progVars, junkVars, handlers, exiting, status,
                    exit_code, exit_sig, diskVars, cause, delivered,
                    created, disk0, sideVars, pre, checkout_ret, auxVars, mode_moves, write_failed >>

\* write_resumable_resource, lines 500-505.  alt_res is dereferenced first.
WriteOpen ==
    /\ InCleanup /\ Top.at = "open"
    /\ IF alt_res = NoRes
          THEN /\ status' = "crashed"
               /\ UNCHANGED << stack, exiting, exit_code, record,
                               write_failed >>
          ELSE \E ok \in BOOLEAN :
                 IF ok
                    THEN /\ record' = OpenCreat(record)
                         /\ stack' = SetTop("write")
                         /\ UNCHANGED << exiting, status, exit_code,
                                         write_failed >>
                    ELSE /\ DieInCleanup
                         /\ UNCHANGED record
    /\ UNCHANGED << pc, progVars, junkVars, handlers, exit_sig, exists,
                    primer, temp_refs, fetched, ref_store,
                    head_installed, config, warned, cause, delivered,
                    created, disk0, sideVars, pre, checkout_ret, auxVars, mode_moves >>

\* write_resumable_resource, lines 506-508, and the note of lines 521-522.
WriteRecord ==
    /\ InCleanup /\ Top.at = "write"
    /\ \E ok \in BOOLEAN :
         IF ok
            THEN /\ record' = WriteInFull(record, ResumableContent(alt_res))
                 /\ stack' = SetTop("ret")
                 /\ warned' = warned \cup {"junk_leave_resumable_msg"}
                 /\ UNCHANGED << exiting, status, exit_code, write_failed >>
            ELSE /\ DieInCleanup
                 /\ UNCHANGED << record, warned >>
    /\ UNCHANGED << pc, progVars, junkVars, handlers, exit_sig, exists,
                    primer, temp_refs, fetched, ref_store,
                    head_installed, config, cause, delivered, created, disk0, sideVars,
                    pre, checkout_ret, auxVars, mode_moves >>

\* The disk after remove_dir_recursively(p).
Removed(p) ==
    LET ex == remove_dir_recursively(exists, p)
    IN  /\ exists' = ex
        /\ record' = Content(ex, record, NoFile)
        /\ primer' = Content(ex, primer, {})
        /\ temp_refs' = Content(ex, temp_refs, {})
        /\ ref_store' = Content(ex, ref_store, NoRefs)
        /\ head_installed' = Content(ex, head_installed, FALSE)
        /\ config' = Content(ex, config, {})
        /\ UNCHANGED fetched

\* remove_junk, lines 530-534.
RemoveGitDir ==
    /\ InCleanup /\ Top.at = "rm_git"
    /\ Removed(junk_git_dir)
    /\ stack' = SetTop("rm_wt")
    /\ UNCHANGED << pc, progVars, junkVars, handlers, exiting, status,
                    exit_code, exit_sig, histVars >>

\* RemoveWorkTree that leaves junk_work_tree in place.
RemoveWorkTree_Skipped ==
    /\ InCleanup /\ Top.at = "rm_wt"
    /\ stack' = SetTop("ret")
    /\ UNCHANGED << pc, progVars, junkVars, handlers, exiting, status,
                    exit_code, exit_sig, diskVars, histVars >>

\* remove_junk, lines 535-539.
RemoveWorkTree ==
    /\ InCleanup /\ Top.at = "rm_wt"
    /\ Removed(junk_work_tree)
    /\ stack' = SetTop("ret")
    /\ UNCHANGED << pc, progVars, junkVars, handlers, exiting, status,
                    exit_code, exit_sig, histVars >>

\* remove_junk has returned: exit() ends the process with its exit code;
\* remove_junk_on_signal, lines 545-546, pops its handler and raises the
\* signal again, which now ends the process.
CleanupReturn ==
    /\ InCleanup /\ Top.at = "ret"
    /\ IF Top.kind = "atexit"
          THEN status' = "exited" /\ UNCHANGED exit_sig
          ELSE status' = "signaled" /\ exit_sig' = Top.sig
    /\ UNCHANGED << pc, progVars, junkVars, handlers, stack, exiting,
                    exit_code, diskVars, histVars >>

\* The signals that may be delivered now: the one a handler is running for
\* is held back until that handler returns.
Deliverable == {s \in Signals :
                   \A i \in 1 .. Len(stack) : stack[i].sig # s}

\* A fatal signal arrives and remove_junk_on_signal starts (lines 542-544).
Signal ==
    /\ status = "running" /\ handlers
    /\ \E s \in Deliverable :
         /\ stack' = Append(Interrupted(stack), Frame("signal", s))
         /\ delivered' = delivered \cup {s}
    /\ cause' = IF cause = "none" THEN "signal" ELSE cause
    /\ pre' = IF cause = "none" THEN Disk ELSE pre
    /\ UNCHANGED << pc, progVars, junkVars, handlers, exiting, status,
                    exit_code, exit_sig, diskVars, warned, created, disk0, sideVars,
                    checkout_ret, auxVars, mode_moves, write_failed >>

\* die() in the main program: exit(128), which runs remove_junk if atexit
\* has registered it.
Die ==
    /\ cause' = "die"
    /\ pre' = Disk
    /\ exit_code' = 128
    /\ exiting' = TRUE
    /\ IF handlers
          THEN stack' = << Frame("atexit", 0) >> /\ UNCHANGED status
          ELSE status' = "exited" /\ UNCHANGED stack
    /\ UNCHANGED << pc, progVars, junkVars, handlers, exit_sig, diskVars,
                    warned, delivered, created, disk0, sideVars, checkout_ret, auxVars,
                    mode_moves, write_failed >>

\* ---------------------------------------------------------------- cmd_clone
\* The steps in which the source calls die() on a condition of the
\* environment (a failed system call, an unreachable remote, a failed
\* child process), or calls a function that does.
DiePoints == {"plan", "mkdir_wt", "junk_git_dir", "set_git_dir", "init_db",
              "write_config", "transport", "get_refs", "early_fetch",
              "refspec_config", "download", "transfer",
              "update_remote_refs", "update_head", "disconnect", "checkout"}

\* A fatal error in the main program.  checkout (lines 743-751) returns
\* before anything can fail when nothing is to be checked out.
Fatal ==
    /\ MainRuns /\ pc \in DiePoints
    /\ pc = "checkout" => ~option_no_checkout /\ head_installed
    /\ Die

\* A change of junk_mode, remembered.
Move(to) ==
    /\ junk_mode' = to
    /\ mode_moves' = IF junk_mode = to THEN mode_moves
                     ELSE mode_moves \cup {<< junk_mode, to >>}

\* Lines 1187-1220: the options that exclude each other.
ParseOptions ==
    /\ MainRuns /\ pc = "options"
    /\ IF \/ opt.resume /\ (opt.bare \/ opt.separate)
          \/ opt.bare /\ opt.separate
          THEN Die /\ UNCHANGED option_no_checkout
          ELSE /\ pc' = IF opt.resume THEN "resume_state" ELSE "plan"
               /\ option_no_checkout' = opt.bare
               /\ UNCHANGED << procVars, histVars >>
    /\ UNCHANGED << opt, is_local, refs, complete_refs_before_fetch, alt_res,
                    resource_path, err, junkVars, diskVars >>

\* strbuf_getline: the bytes up to the next line feed or the end of the
\* file, without the line feed; and the bytes left to read after it.
RECURSIVE strbuf_getline(_)
strbuf_getline(bytes) ==
    IF bytes = << >> \/ Head(bytes) = LF THEN << >>
    ELSE << Head(bytes) >> \o strbuf_getline(Tail(bytes))

RECURSIVE AfterLine(_)
AfterLine(bytes) ==
    IF bytes = << >> THEN << >>
    ELSE IF Head(bytes) = LF THEN Tail(bytes)
    ELSE AfterLine(Tail(bytes))

\* get_last_alt_resource that allocates its result before opening the file.
get_last_alt_resource_NeverNull(rec) ==
    IF rec = NoFile THEN [url |-> << >>, filetype |-> << >>]
    ELSE [url |-> strbuf_getline(rec),
          filetype |-> strbuf_getline(AfterLine(rec))]

\* get_last_alt_resource, lines 1064-1078: NULL without the file, else its
\* first two lines (empty strings at end of file).
get_last_alt_resource(rec) ==
    IF rec = NoFile THEN NoRes
    ELSE [url |-> strbuf_getline(rec),
          filetype |-> strbuf_getline(AfterLine(rec))]

\* Lines 1222-1249: the resumed destination must exist and hold a
\* ResumeRecord; the options come from its configuration.
ResumeState ==
    /\ MainRuns /\ pc = "resume_state"
    /\ IF "dir" \notin exists \/ get_last_alt_resource(record) = NoRes
          THEN Die /\ UNCHANGED << opt, option_no_checkout, alt_res >>
          ELSE /\ pc' = "resume_mode"
               /\ opt' = [opt EXCEPT !.bare = opt.past_bare]
               /\ option_no_checkout' = opt.past_bare
               /\ alt_res' = get_last_alt_resource(record)
               /\ UNCHANGED << procVars, histVars >>
    /\ UNCHANGED << is_local, refs, complete_refs_before_fetch,
                    resource_path, err, junkVars, diskVars >>

\* ResumeMode without the assignment.
ResumeMode_Skipped ==
    /\ MainRuns /\ pc = "resume_mode"
    /\ pc' = "resume_handlers"
    /\ UNCHANGED << progVars, junkVars, procVars, diskVars, histVars >>

\* Line 1251.
ResumeMode ==
    /\ MainRuns /\ pc = "resume_mode"
    /\ pc' = "resume_handlers"
    /\ Move("JUNK_LEAVE_RESUMABLE")
    /\ UNCHANGED << progVars, junk_git_dir, junk_work_tree, procVars,
                    diskVars, warned, cause, delivered, created, disk0, sideVars, pre,
                    checkout_ret, auxVars, write_failed >>

\* Lines 1252-1253 and 1298-1299: atexit(remove_junk) and
\* sigchain_push_common(remove_junk_on_signal).
InstallHandlers ==
    /\ MainRuns /\ pc \in {"resume_handlers", "handlers"}
    /\ handlers' = TRUE
    /\ pc' = IF pc = "resume_handlers" THEN "transport"
             ELSE IF opt.bare THEN "junk_git_dir" ELSE "mkdir_wt"
    /\ UNCHANGED << progVars, junkVars, stack, exiting, status,
                    exit_code, exit_sig, diskVars, histVars >>

\* Plan without the test of the destination.
Plan_NoCheck ==
    /\ MainRuns /\ pc = "plan"
    /\ pc' = "handlers"
    /\ UNCHANGED << progVars, junkVars, procVars, diskVars, histVars >>

\* Lines 1256-1296: the destination must be absent or an empty directory.
Plan ==
    /\ MainRuns /\ pc = "plan"
    /\ IF opt.dest = "nonempty"
          THEN Die
          ELSE pc' = "handlers" /\ UNCHANGED << procVars, histVars >>
    /\ UNCHANGED << progVars, junkVars, diskVars >>

\* Lines 1302-1307: mkdir(work_tree) unless the destination exists.
MkdirWorkTree ==
    /\ MainRuns /\ pc = "mkdir_wt"
    /\ pc' = "junk_wt"
    /\ exists' = exists \cup {WorkTree}
    /\ created' = created \cup ({WorkTree} \ exists)
    /\ UNCHANGED << progVars, junkVars, procVars, record, primer, temp_refs,
                    fetched, ref_store, head_installed, config,
                    warned, cause, delivered, disk0, sideVars, pre, checkout_ret, auxVars,
                    mode_moves, write_failed >>

\* Lines 1308-1309.
JunkWorkTree ==
    /\ MainRuns /\ pc = "junk_wt"
    /\ pc' = "junk_git_dir"
    /\ junk_work_tree' = WorkTree
    /\ UNCHANGED << progVars, junk_mode, junk_git_dir, procVars, diskVars,
                    histVars >>

\* Lines 1312-1314.
JunkGitDir ==
    /\ MainRuns /\ pc = "junk_git_dir"
    /\ pc' = "set_git_dir"
    /\ junk_git_dir' = GitDirArg
    /\ UNCHANGED << progVars, junk_mode, junk_work_tree, procVars, diskVars,
                    histVars >>

\* Lines 1316-1320.
SetGitDirInit ==
    /\ MainRuns /\ pc = "set_git_dir"
    /\ pc' = "init_db"
    /\ junk_git_dir' = IF opt.separate THEN "real" ELSE junk_git_dir
    /\ UNCHANGED << progVars, junk_mode, junk_work_tree, procVars, diskVars,
                    histVars >>

\* Line 1328, init_db: the git directory (and, for a work tree, its .git
\* entry) comes into being.
InitDb ==
    /\ MainRuns /\ pc = "init_db"
    /\ pc' = "write_config"
    /\ exists' = exists \cup {GitDir, GitDirArg}
    /\ created' = created \cup ({GitDir, GitDirArg} \ exists)
    /\ UNCHANGED << progVars, junkVars, procVars, record, primer, temp_refs,
                    fetched, ref_store, head_installed, config,
                    warned, cause, delivered, disk0, sideVars, pre, checkout_ret, auxVars,
                    mode_moves, write_failed >>

\* Lines 1329-1346: core.bare and remote.<origin>.url.
WriteConfig ==
    /\ MainRuns /\ pc = "write_config"
    /\ pc' = "setup_reference"
    /\ config' = config \cup {"remote.url"}
                        \cup (IF opt.bare THEN {"core.bare"} ELSE {})
    /\ UNCHANGED << progVars, junkVars, procVars, exists, record, primer,
                    temp_refs, fetched, ref_store, head_installed,
                    histVars >>

\* add_one_reference, lines 335-342: a usable reference repository gets
\* its entry in objects/info/alternates.
add_one_reference(cfg, reference) ==
    IF reference = "usable" THEN cfg \cup {"alternates"} ELSE cfg

\* SetupReference without the test for a shallow reference repository.
SetupReference_NoCheck ==
    /\ MainRuns /\ pc = "setup_reference"
    /\ pc' = "transport"
    /\ config' = add_one_reference(config, opt.reference)
    /\ UNCHANGED << progVars, junkVars, procVars, exists, record, primer,
                    temp_refs, fetched, ref_store, head_installed,
                    histVars >>

\* Lines 1348-1349, setup_reference: add_one_reference dies on a shallow
\* reference repository (lines 335-336).
SetupReference ==
    /\ MainRuns /\ pc = "setup_reference"
    /\ IF opt.reference = "shallow"
          THEN Die /\ UNCHANGED config
          ELSE /\ pc' = "transport"
               /\ config' = add_one_reference(config, opt.reference)
               /\ UNCHANGED << procVars, histVars >>
    /\ UNCHANGED << progVars, junkVars, exists, record, primer,
                    temp_refs, fetched, ref_store, head_installed >>

\* Lines 1357-1397: the transport, and whether the source is a local
\* repository.
Transport ==
    /\ MainRuns /\ pc = "transport"
    /\ pc' = "prime"
    /\ is_local' \in BOOLEAN
    /\ UNCHANGED << opt, option_no_checkout, refs,
                    complete_refs_before_fetch, alt_res, resource_path, err,
                    junkVars, procVars, diskVars, histVars >>

\* Lines 1399-1400: ask the transport for a primer, unless one is known.
PrimeClone ==
    /\ MainRuns /\ pc = "prime"
    /\ pc' = "get_refs"
    /\ IF ~is_local /\ opt.reference = "none" /\ alt_res = NoRes
          THEN alt_res' \in {NoRes} \cup Resources
          ELSE UNCHANGED alt_res
    /\ UNCHANGED << opt, option_no_checkout, is_local, refs,
                    complete_refs_before_fetch, resource_path, err,
                    junkVars, procVars, diskVars, histVars >>

\* Line 1401: the advertised refs: none, all with object ids, or some with
\* a null object id.
GetRefs ==
    /\ MainRuns /\ pc = "get_refs"
    /\ pc' = "plan_refs"
    /\ refs' \in {"none", "complete", "nullid"}
    /\ UNCHANGED << opt, option_no_checkout, is_local,
                    complete_refs_before_fetch, alt_res, resource_path, err,
                    junkVars, procVars, diskVars, histVars >>


\* Lines 1403-1420 and 1439-1453: with refs, look for a null object id;
\* without, the clone is empty and nothing is checked out.
PlanRefs ==
    /\ MainRuns /\ pc = "plan_refs"
    /\ pc' = "early_fetch"
    /\ complete_refs_before_fetch' =
           IF refs = "nullid" THEN FALSE ELSE complete_refs_before_fetch
    /\ option_no_checkout' = IF refs = "none" THEN TRUE
                             ELSE option_no_checkout
    /\ config' = IF refs = "none" /\ ~opt.bare
                    THEN config \cup {"branch.master"} ELSE config
    /\ UNCHANGED << opt, is_local, refs, alt_res, resource_path, err,
                    junkVars, procVars, exists, record, primer, temp_refs,
                    fetched, ref_store, head_installed, histVars >>

\* Lines 1421-1438: the early transport_fetch_refs, then the remote HEAD.
EarlyFetch ==
    /\ MainRuns /\ pc = "early_fetch"
    /\ pc' = "refspec_config"
    /\ fetched' = IF refs # "none" /\ ~is_local /\ ~complete_refs_before_fetch
                     THEN fetched + 1 ELSE fetched
    /\ UNCHANGED << progVars, junkVars, procVars, exists, record, primer,
                    temp_refs, ref_store, head_installed, config,
                    histVars >>

\* write_refspec_config, lines 809-859, as called at lines 1455-1458.
write_refspec_config(cfg, bare) ==
    IF ~bare THEN cfg \cup {"remote.fetch"} ELSE cfg

RefspecConfig ==
    /\ MainRuns /\ pc = "refspec_config"
    /\ pc' = "alt_begin"
    /\ config' = IF ~opt.resume THEN write_refspec_config(config, opt.bare)
                 ELSE config
    /\ UNCHANGED << progVars, junkVars, procVars, exists, record, primer,
                    temp_refs, fetched, ref_store, head_installed,
                    histVars >>

\* AltBegin that writes the ResumeRecord when it enters
\* JUNK_LEAVE_RESUMABLE.
AltBegin_WritesRecord ==
    /\ MainRuns /\ pc = "alt_begin"
    /\ IF alt_res # NoRes
          THEN /\ pc' = "fetch_alt" /\ Move("JUNK_LEAVE_RESUMABLE")
               /\ record' = ResumableContent(alt_res)
          ELSE /\ pc' = "transfer"
               /\ UNCHANGED << junk_mode, mode_moves, record >>
    /\ UNCHANGED << progVars, junk_git_dir, junk_work_tree, procVars,
                    exists, primer, temp_refs, fetched, ref_store,
                    head_installed, config, warned, cause, delivered,
                    created, disk0, sideVars, pre, checkout_ret, auxVars,
                    write_failed >>

\* AltBegin that enters JUNK_LEAVE_RESUMABLE without a primer.
AltBegin_Unconditional ==
    /\ MainRuns /\ pc = "alt_begin"
    /\ pc' = "fetch_alt" /\ Move("JUNK_LEAVE_RESUMABLE")
    /\ UNCHANGED << progVars, junk_git_dir, junk_work_tree, procVars,
                    diskVars, warned, cause, delivered, created, disk0,
                    sideVars, pre, checkout_ret, auxVars, write_failed >>

\* Lines 1460-1461.
AltBegin ==
    /\ MainRuns /\ pc = "alt_begin"
    /\ IF alt_res # NoRes
          THEN pc' = "fetch_alt" /\ Move("JUNK_LEAVE_RESUMABLE")
          ELSE pc' = "transfer" /\ UNCHANGED << junk_mode, mode_moves, write_failed >>
    /\ UNCHANGED << progVars, junk_git_dir, junk_work_tree, procVars,
                    diskVars, warned, cause, delivered, created, disk0, sideVars, pre,
                    checkout_ret, auxVars, write_failed >>

\* fetch_alt_resource, lines 1055-1062, up to the start of the download
\* (line 1043): only filetype "pack" is fetched; the download writes
\* <name>.pack.temp until the pack is complete.
FetchAlt ==
    /\ MainRuns /\ pc = "fetch_alt"
    /\ IF alt_res.filetype = PackType
          THEN /\ pc' = "download"
               /\ primer' = IF "pack" \in primer THEN primer
                            ELSE primer \cup {"temp"}
               /\ UNCHANGED resource_path
          ELSE /\ pc' = "use_alt"
               /\ resource_path' = NoPath
               /\ UNCHANGED primer
    /\ UNCHANGED << opt, option_no_checkout, is_local, refs,
                    complete_refs_before_fetch, alt_res, err, junkVars,
                    procVars, exists, record, temp_refs, fetched,
                    ref_store, head_installed, config, histVars >>

\* transport_download_primer returns (line 1043): the path of the complete
\* pack, or NULL with the partial file left behind.
Download ==
    /\ MainRuns /\ pc = "download"
    /\ pc' = "use_alt"
    /\ \E ok \in BOOLEAN :
         IF ok
            THEN /\ primer' = (primer \ {"temp"}) \cup {"pack"}
                 /\ resource_path' = "pack"
            ELSE /\ resource_path' = NoPath
                 /\ UNCHANGED primer
    /\ UNCHANGED << opt, option_no_checkout, is_local, refs,
                    complete_refs_before_fetch, alt_res, err, junkVars,
                    procVars, exists, record, temp_refs, fetched,
                    ref_store, head_installed, config, histVars >>

\* Line 1463 and setup_and_index_pack, lines 906-927: index the pack unless
\* its .bndl is there.
UseAlt ==
    /\ MainRuns /\ pc = "use_alt"
    /\ IF resource_path = NoPath
          THEN pc' = "abandon" /\ UNCHANGED primer
          ELSE IF "bndl" \in primer
          THEN pc' = "bundle_refs" /\ UNCHANGED primer
          ELSE \E ok \in BOOLEAN :
                 IF ok
                    THEN /\ pc' = "bundle_refs"
                         /\ primer' = primer \cup {"idx", "bndl"}
                    ELSE /\ pc' = "abandon"
                         /\ UNCHANGED primer
    /\ UNCHANGED << progVars, junkVars, procVars, exists, record, temp_refs,
                    fetched, ref_store, head_installed, config,
                    histVars >>

\* WriteBundleRefs that creates each temporary ref on its own, so that a
\* failure leaves the first behind.
WriteBundleRefs_OneByOne ==
    /\ MainRuns /\ pc = "bundle_refs"
    /\ \E ok \in BOOLEAN :
         IF ok
            THEN /\ pc' = "transfer"
                 /\ temp_refs' = temp_refs \cup Tips
                 /\ temp_created' = Tips \ temp_refs
            ELSE /\ pc' = "abandon"
                 /\ temp_refs' = temp_refs \cup {1}
                 /\ temp_created' = {1} \ temp_refs
    /\ UNCHANGED << progVars, junkVars, procVars, exists, record, primer,
                    fetched, ref_store, head_installed, config,
                    warned, cause, delivered, created, disk0, sideVars, pre,
                    checkout_ret, temp_deleted, cloned_local, mode_moves,
                    write_failed >>

\* write_bundle_refs, lines 929-964: one transaction creates the temporary
\* refs of the tips that have none yet; a rejected create (lines 947-952)
\* or a failed commit (lines 957-960) leaves the ref store as it was.
WriteBundleRefs ==
    /\ MainRuns /\ pc = "bundle_refs"
    /\ \E outcome \in {"committed", "create rejected", "commit failed"} :
         IF outcome = "committed"
            THEN /\ pc' = "transfer"
                 /\ temp_refs' = temp_refs \cup Tips
                 /\ temp_created' = Tips \ temp_refs
            ELSE /\ pc' = "abandon"
                 /\ UNCHANGED << temp_refs, temp_created >>
    /\ UNCHANGED << progVars, junkVars, procVars, exists, record, primer,
                    fetched, ref_store, head_installed, config,
                    warned, cause, delivered, created, disk0, sideVars, pre,
                    checkout_ret, temp_deleted, cloned_local, mode_moves,
                    write_failed >>

\* Abandon without the test of option_resume.
Abandon_ResumeFallsBack ==
    /\ MainRuns /\ pc = "abandon"
    /\ pc' = "clean_abandon"
    /\ Move("JUNK_LEAVE_NONE")
    /\ UNCHANGED << progVars, junk_git_dir, junk_work_tree, procVars,
                    diskVars, warned, cause, delivered, created, disk0, sideVars, pre,
                    checkout_ret, auxVars, write_failed >>

\* Lines 1464-1467: a resumed clone dies, any other falls back.
Abandon ==
    /\ MainRuns /\ pc = "abandon"
    /\ IF opt.resume
          THEN Die
          ELSE /\ pc' = "clean_abandon"
               /\ Move("JUNK_LEAVE_NONE")
               /\ UNCHANGED << procVars, warned, cause, delivered, created,
                               disk0, sideVars, pre, checkout_ret, auxVars, write_failed >>
    /\ UNCHANGED << progVars, junk_git_dir, junk_work_tree, diskVars >>

\* clean_alt_resource, lines 1049-1053, and clean_alt_resource_pack, lines
\* 983-1031: the primer files and temporary refs left on disk.
clean_primer(files, res, path, prime_successful) ==
    IF res.filetype # PackType \/ path = NoPath THEN files
    ELSE IF prime_successful THEN files \ {"bndl"}
    ELSE files \ {"pack", "temp", "idx", "bndl"}

\* clean_temp_refs that deletes no ref.
clean_temp_refs_KeepsRefs(trefs, res, path, prime_successful) == trefs

clean_temp_refs(trefs, res, path, prime_successful) ==
    IF res.filetype # PackType \/ path = NoPath THEN trefs
    ELSE IF prime_successful THEN trefs \ Tips
    ELSE trefs

\* Line 1468.
CleanAbandon ==
    /\ MainRuns /\ pc = "clean_abandon"
    /\ pc' = "abandon_reset"
    /\ primer' = clean_primer(primer, alt_res, resource_path, FALSE)
    /\ temp_refs' = clean_temp_refs(temp_refs, alt_res, resource_path, FALSE)
    /\ UNCHANGED << progVars, junkVars, procVars, exists, record, fetched,
                    ref_store, head_installed, config, histVars >>

\* Lines 1469-1470.
AbandonReset ==
    /\ MainRuns /\ pc = "abandon_reset"
    /\ pc' = "transfer"
    /\ resource_path' = NoPath
    /\ alt_res' = NoRes
    /\ UNCHANGED << opt, option_no_checkout, is_local, refs,
                    complete_refs_before_fetch, err, junkVars, procVars,
                    diskVars, histVars >>

\* Transfer that fetches whether or not the early fetch was done.
Transfer_FetchesAgain ==
    /\ MainRuns /\ pc = "transfer"
    /\ pc' = "update_remote_refs"
    /\ cloned_local' = IF is_local THEN cloned_local + 1 ELSE cloned_local
    /\ fetched' = IF ~is_local /\ refs # "none"
                     THEN fetched + 1 ELSE fetched
    /\ UNCHANGED << progVars, junkVars, procVars, exists, record, primer,
                    temp_refs, ref_store, head_installed, config,
                    warned, cause, delivered, created, disk0, sideVars, pre,
                    checkout_ret, temp_created, temp_deleted, mode_moves,
                    write_failed >>

\* Lines 1474-1477: clone_local, or the transport's fetch if it was not
\* done early.
Transfer ==
    /\ MainRuns /\ pc = "transfer"
    /\ pc' = "update_remote_refs"
    /\ cloned_local' = IF is_local THEN cloned_local + 1 ELSE cloned_local
    /\ fetched' = IF ~is_local /\ refs # "none" /\ complete_refs_before_fetch
                     THEN fetched + 1 ELSE fetched
    /\ UNCHANGED << progVars, junkVars, procVars, exists, record, primer,
                    temp_refs, ref_store, head_installed, config,
                    warned, cause, delivered, created, disk0, sideVars, pre,
                    checkout_ret, temp_created, temp_deleted, mode_moves,
                    write_failed >>

\* write_remote_refs, lines 605-629: one transaction creates, with the
\* advertised object id, every peer name that is not in the ref store yet.
write_remote_refs(store) ==
    [r \in MRefs |-> IF store[r] = "none" THEN "adv" ELSE store[r]]

\* The mapped refs are all in the ref store.
mapped_installed == \A r \in MRefs : ref_store[r] # "none"

\* update_remote_refs, lines 666-702, as called at line 1479.
UpdateRemoteRefs ==
    /\ MainRuns /\ pc = "update_remote_refs"
    /\ pc' = "update_head"
    /\ ref_store' = IF refs # "none" THEN write_remote_refs(ref_store)
                     ELSE ref_store
    /\ UNCHANGED << progVars, junkVars, procVars, exists, record, primer,
                    temp_refs, fetched, head_installed, config, histVars >>

\* update_head, lines 704-731, as called at line 1482.
UpdateHead ==
    /\ MainRuns /\ pc = "update_head"
    /\ pc' = "disconnect"
    /\ head_installed' = IF refs # "none" THEN TRUE ELSE head_installed
    /\ UNCHANGED << progVars, junkVars, procVars, exists, record, primer,
                    temp_refs, fetched, ref_store, config, histVars >>

\* Lines 1484-1490.
Disconnect ==
    /\ MainRuns /\ pc = "disconnect"
    /\ pc' = "clean_done"
    /\ UNCHANGED << progVars, junkVars, procVars, diskVars, histVars >>


\* Lines 1492-1494.  resource_path is assigned only when a primer was
\* offered (line 1462); otherwise line 1492 reads an uninitialized
\* pointer: it may compare equal to NULL, or not, in which case
\* clean_alt_resource dereferences the NULL alt_res.
CleanDone ==
    /\ MainRuns /\ pc = "clean_done"
    /\ IF resource_path = "uninit"
          THEN \E null \in BOOLEAN :
                 IF null \/ alt_res # NoRes
                    THEN /\ pc' = "leave_repo"
                         /\ UNCHANGED << status, cause >>
                    ELSE /\ status' = "crashed"
                         /\ cause' = "crash"
                         /\ UNCHANGED pc
          ELSE /\ pc' = "leave_repo"
               /\ UNCHANGED << status, cause >>
    /\ primer' = IF resource_path = "uninit" THEN primer
                 ELSE clean_primer(primer, alt_res, resource_path, TRUE)
    /\ temp_refs' = IF resource_path = "uninit" THEN temp_refs
                    ELSE clean_temp_refs(temp_refs, alt_res, resource_path,
                                         TRUE)
    /\ temp_deleted' = temp_deleted \cup (temp_refs \ temp_refs')
    /\ UNCHANGED << temp_created, cloned_local >>
    /\ UNCHANGED << progVars, junkVars, handlers, stack, exiting,
                    exit_code, exit_sig, exists, record, fetched,
                    ref_store, head_installed, config, warned,
                    delivered, created, disk0, sideVars, pre, checkout_ret,
                    mode_moves, write_failed >>

\* LeaveRepo without the assignment.
LeaveRepo_Skipped ==
    /\ MainRuns /\ pc = "leave_repo"
    /\ pc' = "checkout"
    /\ UNCHANGED << progVars, junkVars, procVars, diskVars, histVars >>

\* Line 1496.
LeaveRepo ==
    /\ MainRuns /\ pc = "leave_repo"
    /\ pc' = "checkout"
    /\ Move("JUNK_LEAVE_REPO")
    /\ UNCHANGED << progVars, junk_git_dir, junk_work_tree, procVars,
                    diskVars, warned, cause, delivered, created, disk0, sideVars, pre,
                    checkout_ret, auxVars, write_failed >>

\* checkout, lines 733-791, returns: 0 at once with --no-checkout, else
\* the result of the post-checkout hook and of the submodule update.
Checkout ==
    /\ MainRuns /\ pc = "checkout"
    /\ pc' = "unlink_resumable"
    /\ err' \in IF option_no_checkout \/ ~head_installed THEN {0} ELSE {0, 1}
    /\ checkout_ret' = TRUE
    /\ UNCHANGED << opt, option_no_checkout, is_local, refs,
                    complete_refs_before_fetch, alt_res, resource_path,
                    junkVars, procVars, diskVars, warned, cause, delivered,
                    created, disk0, sideVars, pre, auxVars, mode_moves, write_failed >>

\* UnlinkResumable without the unlink.
UnlinkResumable_Skipped ==
    /\ MainRuns /\ pc = "unlink_resumable"
    /\ pc' = "leave_all"
    /\ UNCHANGED << progVars, junkVars, procVars, diskVars, histVars >>

\* Lines 1499-1501.
UnlinkResumable ==
    /\ MainRuns /\ pc = "unlink_resumable"
    /\ pc' = "leave_all"
    /\ record' = NoFile
    /\ UNCHANGED << progVars, junkVars, procVars, exists, primer, temp_refs,
                    fetched, ref_store, head_installed, config,
                    histVars >>

\* LeaveAll that keeps JUNK_LEAVE_REPO when checkout returned non-zero.
LeaveAll_OnSuccessOnly ==
    /\ MainRuns /\ pc = "leave_all"
    /\ pc' = "return"
    /\ IF err = 0 THEN Move("JUNK_LEAVE_ALL")
       ELSE UNCHANGED << junk_mode, mode_moves >>
    /\ UNCHANGED << progVars, junk_git_dir, junk_work_tree, procVars,
                    diskVars, warned, cause, delivered, created, disk0, sideVars, pre,
                    checkout_ret, auxVars, write_failed >>

\* Line 1507.
LeaveAll ==
    /\ MainRuns /\ pc = "leave_all"
    /\ pc' = "return"
    /\ Move("JUNK_LEAVE_ALL")
    /\ UNCHANGED << progVars, junk_git_dir, junk_work_tree, procVars,
                    diskVars, warned, cause, delivered, created, disk0, sideVars, pre,
                    checkout_ret, auxVars, write_failed >>

\* Line 1510: cmd_clone returns err, the process calls exit(err), and
\* exit runs remove_junk.
Return ==
    /\ MainRuns /\ pc = "return"
    /\ pc' = "done"
    /\ cause' = "return"
    /\ pre' = Disk
    /\ exit_code' = err
    /\ exiting' = TRUE
    /\ stack' = << Frame("atexit", 0) >>
    /\ UNCHANGED << progVars, junkVars, handlers, status, exit_sig,
                    diskVars, warned, delivered, created, disk0, sideVars,
                    checkout_ret, auxVars, mode_moves, write_failed >>

\* ------------------------------------------------------------------- Init
Options ==
    {o \in [resume : BOOLEAN, bare : BOOLEAN, separate : BOOLEAN,
            dest : {"absent", "empty", "nonempty", "repo"},
            past_bare : BOOLEAN,
            reference : {"none", "usable", "shallow"}] :
        /\ o.resume => o.dest \in {"absent", "repo"}
        /\ o.resume => o.reference = "none"
        /\ ~o.resume => o.dest # "repo" /\ ~o.past_bare
        /\ o.dest = "absent" => ~o.past_bare
        /\ o.resume /\ (o.bare \/ o.separate) => o.dest = "absent"}

\* The configuration an interrupted clone has written.
PastConfig(bare) == IF bare THEN {"remote.url", "core.bare"}
                    ELSE {"remote.url", "remote.fetch"}

\* What an interrupted clone leaves of its primer and refs, by the place
\* it was interrupted at: in the download, before the indexing, before
\* write_bundle_refs, in the main transfer, after update_head (with the
\* remote unchanged since, or ref 1 moved since), and after line 1493.
InterruptedAt ==
    {[primer |-> {"temp"}, temp_refs |-> {}, mapped |-> NoRefs,
      head |-> FALSE],
     [primer |-> {"pack"}, temp_refs |-> {}, mapped |-> NoRefs,
      head |-> FALSE],
     [primer |-> {"pack", "idx", "bndl"}, temp_refs |-> {},
      mapped |-> NoRefs, head |-> FALSE],
     [primer |-> {"pack", "idx", "bndl"}, temp_refs |-> Tips,
      mapped |-> NoRefs, head |-> FALSE],
     [primer |-> {"pack", "idx", "bndl"}, temp_refs |-> Tips,
      mapped |-> AllAdvertised, head |-> TRUE],
     [primer |-> {"pack", "idx", "bndl"}, temp_refs |-> Tips,
      mapped |-> Stale, head |-> TRUE],
     [primer |-> {"pack", "idx"}, temp_refs |-> {},
      mapped |-> AllAdvertised, head |-> TRUE]}

\* The destination before the run: nothing or a directory for a fresh
\* clone; for --resume a repository, complete (no ResumeRecord) or left
\* by an interrupted clone with its ResumeRecord and primer files.
InitialDisks(o) ==
    IF o.dest # "repo"
       THEN {[exists |-> CASE o.dest = "absent" -> {}
                            [] o.dest = "empty" -> {"dir"}
                            [] OTHER -> {"dir", "dir/file"},
              record |-> NoFile, primer |-> {}, temp_refs |-> {},
              mapped |-> NoRefs, head |-> FALSE, config |-> {}]}
       ELSE LET ex == IF o.past_bare THEN {"dir"} ELSE {"dir", "dir/.git"}
            IN  {[exists |-> ex, record |-> NoFile, primer |-> {},
                  temp_refs |-> {}, mapped |-> AllAdvertised, head |-> TRUE,
                  config |-> PastConfig(o.past_bare)]}
                \cup
                {[exists |-> ex, record |-> r, primer |-> st.primer,
                  temp_refs |-> st.temp_refs, mapped |-> st.mapped,
                  head |-> st.head,
                  config |-> PastConfig(o.past_bare)] :
                    r \in {EmptyFile}
                            \cup {ResumableContent(res) : res \in Resources},
                    st \in InterruptedAt}

CloneInit ==
    /\ opt \in Options
    /\ \E d \in InitialDisks(opt) :
         /\ exists = d.exists /\ record = d.record /\ primer = d.primer
         /\ temp_refs = d.temp_refs /\ ref_store = d.mapped
         /\ head_installed = d.head /\ config = d.config
         /\ disk0 = d /\ pre = d
    /\ pc = "options"
    /\ option_no_checkout = FALSE
    /\ is_local = FALSE
    /\ refs = "none"
    /\ complete_refs_before_fetch = TRUE
    /\ junk_mode = "JUNK_LEAVE_NONE"
    /\ junk_git_dir = NoPath
    /\ junk_work_tree = NoPath
    /\ alt_res = NoRes
    /\ resource_path = "uninit"
    /\ err = 0
    /\ handlers = FALSE
    /\ stack = << >>
    /\ exiting = FALSE
    /\ status = "running"
    /\ exit_code = 0
    /\ exit_sig = 0
    /\ fetched = 0
    /\ warned = {}
    /\ cause = "none"
    /\ delivered = {}
    /\ created = {}
    /\ checkout_ret = FALSE
    /\ temp_created = {}
    /\ temp_deleted = {}
    /\ cloned_local = 0
    /\ mode_moves = {}
    /\ write_failed = FALSE

NullStr == << "NULL" >>

NoCloneOptions ==
    [option_origin |-> "NULL", option_bare |-> FALSE,
     option_mirror |-> FALSE, option_single_branch |-> FALSE,
     option_branch |-> "NULL", option_config |-> << >>,
     remote_head |-> NullStr]

NoPastInfo ==
    [name |-> "NULL", fetch_pattern |-> NullStr, bare |-> FALSE,
     mirror |-> FALSE]

NoLocalOptions ==
    [option_shared |-> FALSE, option_local |-> FALSE,
     option_no_hardlinks |-> FALSE, reference |-> FALSE]

NoGuessFlags == [is_bundle |-> FALSE, is_bare |-> FALSE]

\* The configuration walk, clone_local and guess_dir_name when they are
\* not what runs.
CfgOff ==
    /\ cpc = "off"
    /\ copt = NoCloneOptions
    /\ config_file = << >>
    /\ past_info = NoPastInfo
    /\ cfg_i = 0
    /\ crun = "fresh"
    /\ ref_writes = << >>
    /\ branch_config = {}

LocOff ==
    /\ lpc = "off"
    /\ lopt = NoLocalOptions
    /\ lstack = << >>
    /\ ldest = << >>
    /\ lalt = << >>
    /\ option_no_hardlinks = FALSE
    /\ lstatfail = {}

GuessOff ==
    /\ gpc = "off"
    /\ grepo = << >>
    /\ gflags = NoGuessFlags
    /\ gdir = << >>
    /\ gdir2 = << >>

Init == CloneInit /\ CfgOff /\ LocOff /\ GuessOff

Next ==
    \/ ParseOptions \/ ResumeState \/ ResumeMode \/ InstallHandlers
    \/ Plan \/ MkdirWorkTree \/ JunkWorkTree \/ JunkGitDir \/ SetGitDirInit
    \/ InitDb \/ WriteConfig \/ SetupReference \/ Transport \/ PrimeClone \/ GetRefs
    \/ PlanRefs \/ EarlyFetch \/ RefspecConfig \/ AltBegin \/ FetchAlt
    \/ Download \/ UseAlt \/ WriteBundleRefs \/ Abandon \/ CleanAbandon
    \/ AbandonReset \/ Transfer \/ UpdateRemoteRefs \/ UpdateHead
    \/ Disconnect \/ CleanDone \/ LeaveRepo \/ Checkout \/ UnlinkResumable
    \/ LeaveAll \/ Return \/ Fatal \/ Signal \/ CleanupSwitch \/ WriteOpen
    \/ WriteRecord \/ RemoveGitDir \/ RemoveWorkTree \/ CleanupReturn

Spec == Init /\ [][Next]_vars

\* ------------------------------------------------- configuration round trip
\* What a clone writes to the configuration file and to the ref store's
\* HEADs, and what "git clone --resume" reads back from the file.  Strings
\* are sequences of the pieces the code formats and compares them by.
OriginNames == {"origin", "foo"}
RemoteHeads == {"master", "topic"}
RemoteTags == {"v1"}
RefsHeads == << "refs/", "heads/" >>
RefsTags == << "refs/", "tags/" >>

\* -c parameters of the interrupted run: none, one outside the remote
\* sections, one naming a second remote.
OptionConfigs ==
    { << >>,
      << [key |-> << "user.", "name" >>, value |-> << "me" >>] >>,
      << [key |-> << "remote.", "upstream", ".", "url" >>,
          value |-> << "u2" >>] >> }

\* Command lines cmd_clone accepts: --mirror implies --bare, --bare
\* excludes --origin, --branch names a branch or a tag of the remote.
\* remote_head is the branch the remote HEAD points at, or NullStr when
\* the remote HEAD is detached.
CloneOptions ==
    {o \in [option_origin : {"NULL"} \cup (OriginNames \ {"origin"}),
            option_bare : BOOLEAN, option_mirror : BOOLEAN,
            option_single_branch : BOOLEAN,
            option_branch : {"NULL", "topic", "v1"},
            option_config : OptionConfigs,
            remote_head : {NullStr, RefsHeads \o << "master" >>}] :
        /\ o.option_mirror => o.option_bare
        /\ o.option_bare => o.option_origin = "NULL"}

option_origin(o) ==
    IF o.option_origin = "NULL" THEN "origin" ELSE o.option_origin

src_ref_prefix(o) ==
    IF o.option_bare /\ o.option_mirror THEN << "refs/" >>
                                         ELSE RefsHeads

branch_top(o) ==
    IF o.option_bare THEN src_ref_prefix(o)
                     ELSE << "refs/", "remotes/", option_origin(o), "/" >>

\* "+%s*:%s*"
WildcardRefspec(src, dst) ==
    << "+" >> \o src \o << "*", ":" >> \o dst \o << "*" >>

\* The fetch pattern the interrupted run fetches with.
fetch_pattern(o) == WildcardRefspec(src_ref_prefix(o), branch_top(o))

starts_with(str, prefix) ==
    Len(str) >= Len(prefix) /\ SubSeq(str, 1, Len(prefix)) = prefix

skip_prefix(str, prefix) == SubSeq(str, Len(prefix) + 1, Len(str))

find_remote_branch(branch) ==
    IF branch \in RemoteHeads THEN RefsHeads \o << branch >>
    ELSE IF branch \in RemoteTags THEN RefsTags \o << branch >>
    ELSE NullStr

RemoteKey(name, sub_key) == << "remote.", name, ".", sub_key >>

\* git_config_set and git_config_set_multivar with the pattern "^$":
\* the entry goes after the ones the file has.
git_config_set(file, key, value) ==
    Append(file, [key |-> key, value |-> value])

RECURSIVE write_config(_, _)
write_config(file, params) ==
    IF params = << >> THEN file
    ELSE write_config(git_config_set(file, Head(params).key,
                                     Head(params).value), Tail(params))

RECURSIVE IndexOf(_, _)
IndexOf(str, ch) ==
    IF str = << >> THEN 1
    ELSE IF Head(str) = ch THEN 1
    ELSE 1 + IndexOf(Tail(str), ch)

\* parse_fetch_refspec: "+<src>:<dst>", a pattern when <src> ends in "*".
parse_fetch_refspec(pattern) ==
    LET colon == IndexOf(pattern, ":")
        src == SubSeq(pattern, 2, colon - 1)
        dst == SubSeq(pattern, colon + 1, Len(pattern))
        glob == src # << >> /\ src[Len(src)] = "*"
    IN  [pattern |-> glob,
         src |-> IF glob THEN SubSeq(src, 1, Len(src) - 1) ELSE src,
         dst |-> IF glob THEN SubSeq(dst, 1, Len(dst) - 1) ELSE dst]

\* get_fetch_map for one ref: the peer name the refspec gives it, or
\* NullStr when the refspec does not cover it.
get_fetch_map(ref, refspec) ==
    IF ref = NullStr THEN NullStr
    ELSE IF refspec.pattern
    THEN IF starts_with(ref, refspec.src)
            THEN refspec.dst \o skip_prefix(ref, refspec.src)
            ELSE NullStr
    ELSE IF ref = refspec.src THEN refspec.dst ELSE NullStr

\* The value write_refspec_config (lines 809-859) builds; empty when it
\* writes nothing.
RefspecValue(o, our, remote) ==
    IF ~(o.option_mirror \/ ~o.option_bare) THEN << >>
    ELSE IF o.option_single_branch /\ ~o.option_mirror
    THEN IF o.option_branch # "NULL"
         THEN IF starts_with(our, RefsTags)
              THEN << "+" >> \o our \o << ":" >> \o our
              ELSE << "+" >> \o our \o << ":" >> \o branch_top(o)
                       \o << o.option_branch >>
         ELSE IF remote # NullStr
         THEN << "+" >> \o remote \o << ":" >> \o branch_top(o)
                  \o skip_prefix(remote, RefsHeads)
         ELSE << >>
    ELSE WildcardRefspec(src_ref_prefix(o), branch_top(o))

\* wanted_peer_refs, lines 569-603, and lines 1424-1437 of a run that is
\* not a resume: the mapped branch the remote HEAD resolves to, and the
\* ref the local HEAD is to follow.
remote_head_points_at(o) ==
    IF o.option_single_branch /\ o.option_branch # "NULL"
          /\ find_remote_branch(o.option_branch) # o.remote_head
       THEN NullStr
       ELSE o.remote_head

our_head_points_at(o) ==
    IF o.option_branch # "NULL" THEN find_remote_branch(o.option_branch)
                                ELSE remote_head_points_at(o)

WriteRefspecConfig(file, o) ==
    LET v == RefspecValue(o, our_head_points_at(o), remote_head_points_at(o))
    IN  IF v = << >> THEN file
        ELSE LET f == git_config_set(file,
                          RemoteKey(option_origin(o), "fetch"), v)
             IN  IF o.option_mirror
                    THEN git_config_set(f,
                             RemoteKey(option_origin(o), "mirror"),
                             << "true" >>)
                    ELSE f

git_config_bool(value) ==
    value \in {<< "true" >>, << "yes" >>, << "on" >>, << "1" >>}

get_remote_info(key, value, p) ==
    IF Head(key) = "remote."
    THEN IF p.name = "NULL" THEN [p EXCEPT !.name = key[2]]
         ELSE IF key[4] = "fetch" THEN [p EXCEPT !.fetch_pattern = value]
         ELSE IF key[4] = "mirror"
              THEN [p EXCEPT !.mirror = git_config_bool(value)]
         ELSE p
    ELSE IF key = << "core.", "bare" >>
         THEN [p EXCEPT !.bare = git_config_bool(value)]
    ELSE p

\* What the resumed run goes on with.
ResumedFetchPattern(p) ==
    IF p.fetch_pattern # NullStr THEN p.fetch_pattern
    ELSE WildcardRefspec(RefsHeads, RefsHeads)

Resumed(p) ==
    [option_origin |-> p.name, fetch_pattern |-> ResumedFetchPattern(p),
     option_mirror |-> p.mirror, option_bare |-> p.bare]

\* Lines 1232-1240: branch_top of a resumed run is filled only when no
\* fetch pattern was recorded.
ResumedBranchTop(p) ==
    IF p.fetch_pattern # NullStr THEN << >> ELSE RefsHeads

\* What update_remote_refs and update_head get from cmd_clone (lines
\* 1403-1437 and 1479-1482) in the run the walk is in.
CurrentRun ==
    IF crun = "resume"
       THEN LET spec == parse_fetch_refspec(ResumedFetchPattern(past_info))
                rh == IF get_fetch_map(copt.remote_head, spec) # NullStr
                         THEN copt.remote_head ELSE NullStr
            IN  [option_origin |-> past_info.name,
                 option_bare |-> past_info.bare,
                 branch_top |-> ResumedBranchTop(past_info),
                 remote_head_points_at |-> rh,
                 peer_ref |-> get_fetch_map(rh, spec),
                 our_head_points_at |-> rh]
       ELSE [option_origin |-> option_origin(copt),
             option_bare |-> copt.option_bare,
             branch_top |-> branch_top(copt),
             remote_head_points_at |-> remote_head_points_at(copt),
             peer_ref |-> get_fetch_map(remote_head_points_at(copt),
                              parse_fetch_refspec(fetch_pattern(copt))),
             our_head_points_at |-> our_head_points_at(copt)]

\* update_remote_refs, lines 692-701: the symbolic ref for the remote's
\* HEAD.
update_remote_refs(writes, run) ==
    IF run.remote_head_points_at # NullStr /\ ~run.option_bare
       THEN Append(writes, [name |-> run.branch_top \o << "HEAD" >>,
                            kind |-> "symref", target |-> run.peer_ref])
       ELSE writes

\* update_head, lines 704-731: what is written to HEAD.  The remote
\* advertises a HEAD whenever it advertises refs.
update_head(writes, our) ==
    IF our # NullStr /\ starts_with(our, RefsHeads)
       THEN Append(writes, [name |-> << "HEAD" >>, kind |-> "symref",
                            target |-> our])
    ELSE IF our # NullStr
       THEN Append(writes, [name |-> << "HEAD" >>, kind |-> "detached",
                            target |-> << "commit of " >> \o our])
    ELSE Append(writes, [name |-> << "HEAD" >>, kind |-> "detached",
                         target |-> << "object of ", "HEAD" >>])

\* install_branch_config for bare clones too.
install_branch_config_AlsoBare(cfg, our, bare) ==
    IF our # NullStr /\ starts_with(our, RefsHeads)
       THEN cfg \cup {skip_prefix(our, RefsHeads)}
       ELSE cfg

\* update_head, lines 712-716: install_branch_config for the local branch.
install_branch_config(cfg, our, bare) ==
    IF our # NullStr /\ starts_with(our, RefsHeads) /\ ~bare
       THEN cfg \cup {skip_prefix(our, RefsHeads)}
       ELSE cfg

CfgWriteConfig ==
    /\ cpc = "write_config"
    /\ config_file' = write_config(config_file, copt.option_config)
    /\ cpc' = "core_bare"
    /\ UNCHANGED << cloneVars, localVars, guessVars, copt, past_info, cfg_i, crun, ref_writes,
                    branch_config >>

CfgCoreBare ==
    /\ cpc = "core_bare"
    /\ config_file' = IF copt.option_bare
                         THEN git_config_set(config_file,
                                  << "core.", "bare" >>, << "true" >>)
                         ELSE config_file
    /\ cpc' = "remote_url"
    /\ UNCHANGED << cloneVars, localVars, guessVars, copt, past_info, cfg_i, crun, ref_writes,
                    branch_config >>

CfgRemoteUrl ==
    /\ cpc = "remote_url"
    /\ config_file' = git_config_set(config_file,
                          RemoteKey(option_origin(copt), "url"), << "u" >>)
    /\ cpc' = "refspec"
    /\ UNCHANGED << cloneVars, localVars, guessVars, copt, past_info, cfg_i, crun, ref_writes,
                    branch_config >>

\* Lines 1455-1458; the primer adoption of lines 1460-1472 comes next.
CfgRefspecConfig ==
    /\ cpc = "refspec"
    /\ config_file' = WriteRefspecConfig(config_file, copt)
    /\ cpc' = "primer"
    /\ UNCHANGED << cloneVars, localVars, guessVars, copt, past_info, cfg_i, crun, ref_writes,
                    branch_config >>

\* The run is interrupted in the primer download; the next invocation is
\* the --resume one, which starts by reading the configuration.
CfgInterrupt ==
    /\ cpc = "primer" /\ crun = "fresh"
    /\ cpc' = "git_config"
    /\ crun' = "resume"
    /\ UNCHANGED << cloneVars, localVars, guessVars, copt, config_file, past_info, cfg_i,
                    ref_writes, branch_config >>

\* git_config hands get_remote_info one entry of the file after another.
CfgGetRemoteInfo ==
    /\ cpc = "git_config" /\ cfg_i < Len(config_file)
    /\ past_info' = get_remote_info(config_file[cfg_i + 1].key,
                                    config_file[cfg_i + 1].value, past_info)
    /\ cfg_i' = cfg_i + 1
    /\ UNCHANGED << cloneVars, localVars, guessVars, cpc, copt, config_file, crun, ref_writes,
                    branch_config >>

CfgResumeOptions ==
    /\ cpc = "git_config" /\ cfg_i = Len(config_file)
    /\ cpc' = "resumed"
    /\ UNCHANGED << cloneVars, localVars, guessVars, copt, config_file, past_info, cfg_i, crun,
                    ref_writes, branch_config >>

\* Line 1479, in a run that was not interrupted or in the resumed one.
CfgUpdateRemoteRefs ==
    /\ cpc \in {"primer", "resumed"}
    /\ ref_writes' = update_remote_refs(ref_writes, CurrentRun)
    /\ cpc' = "update_head"
    /\ UNCHANGED << cloneVars, localVars, guessVars, copt, config_file, past_info, cfg_i, crun,
                    branch_config >>

\* Line 1482.
CfgUpdateHead ==
    /\ cpc = "update_head"
    /\ ref_writes' = update_head(ref_writes, CurrentRun.our_head_points_at)
    /\ branch_config' = install_branch_config(branch_config,
                            CurrentRun.our_head_points_at,
                            CurrentRun.option_bare)
    /\ cpc' = "cloned"
    /\ UNCHANGED << cloneVars, localVars, guessVars, copt, config_file, past_info, cfg_i, crun >>

CfgInit ==
    /\ CloneInit
    /\ opt = CHOOSE o \in Options : o.dest = "absent"
    /\ LocOff /\ GuessOff
    /\ cpc = "write_config"
    /\ copt \in CloneOptions
    /\ config_file = << >>
    /\ past_info = NoPastInfo
    /\ cfg_i = 0
    /\ crun = "fresh"
    /\ ref_writes = << >>
    /\ branch_config = {}

CfgNext ==
    \/ CfgWriteConfig \/ CfgCoreBare \/ CfgRemoteUrl \/ CfgRefspecConfig
    \/ CfgInterrupt \/ CfgGetRemoteInfo \/ CfgResumeOptions
    \/ CfgUpdateRemoteRefs \/ CfgUpdateHead

SpecCfg == CfgInit /\ [][CfgNext]_vars


\* ------------------------------------------------------------ local clone
\* clone_local and copy_or_link_directory over the source's object
\* directory.  A file name is a sequence of pieces of which the first holds
\* its first character; a path is a sequence of names below objects/.
MaxStatFailures == 1

DotTmp == << ".", "tmp" >>
InfoAlternates == << << "info" >>, << "alternates" >> >>

\* The source's object directory: for each directory the entries readdir
\* returns, in the order it returns them.
SrcTree ==
    ( << >> :> << << "pack" >>, << "info" >>, DotTmp, << "ab" >> >> ) @@
    ( << << "pack" >> >> :> << << "p1" >> >> ) @@
    ( << << "info" >> >> :> << << "alternates" >>, << "packs" >> >> ) @@
    ( << DotTmp >> :> << << "t1" >> >> ) @@
    ( << << "ab" >> >> :> << << "cd" >>, << "o1" >> >> ) @@
    ( << << "ab" >>, << "cd" >> >> :> << << "o2" >> >> )

SrcDirs == DOMAIN SrcTree
SrcEntries == UNION {{d \o << SrcTree[d][i] >> : i \in DOMAIN SrcTree[d]} :
                        d \in SrcDirs}
RegularFiles == SrcEntries \ SrcDirs

\* The bytes of a source file.
SrcData(path) == << "data of" >> \o path

\* The lines of the source's objects/info/alternates: a comment, an empty
\* line, an absolute path and a path relative to the source's objects/.
SrcAlternates ==
    << << "#", "comment" >>, << >>, << "/", "srv", "objects" >>,
       << "..", "..", "other", "objects" >> >>

\* src_repo is /src; a --reference repository is /ref.
SrcRepo == << "/", "src" >>
RefObjects == << "/", "ref", "objects" >>

LocalOptions ==
    [option_shared : BOOLEAN, option_local : BOOLEAN,
     option_no_hardlinks : BOOLEAN, reference : BOOLEAN]

Absent == [kind |-> "absent", data |-> << >>]
Directory == [kind |-> "dir", data |-> << >>]

\* The destination's object directory after init_db: objects/, info/ and
\* pack/ exist and hold nothing.
DestAfterInitDb ==
    [p \in SrcEntries \cup {<< >>} |->
        IF p \in {<< >>, << << "info" >> >>, << << "pack" >> >>}
           THEN Directory ELSE Absent]

\* The destination's alternates file after setup_reference.
AlternatesAfterReference(o) ==
    IF o.reference THEN << RefObjects >> ELSE << >>

\* add_to_alternates_file: the entry becomes the file's last line.
add_to_alternates_file(alt, entry) == Append(alt, entry)

is_absolute_path(line) == line # << >> /\ Head(line) = "/"

\* normalize_path_copy: ".." takes the component before it away.
RECURSIVE normalize_path_copy(_, _)
normalize_path_copy(done, rest) ==
    IF rest = << >> THEN done
    ELSE IF Head(rest) = ".." /\ Len(done) > 1
         THEN normalize_path_copy(SubSeq(done, 1, Len(done) - 1), Tail(rest))
         ELSE normalize_path_copy(Append(done, Head(rest)), Tail(rest))

\* copy_alternates, lines 353-386.
RECURSIVE copy_alternates(_, _)
copy_alternates(alt, lines) ==
    IF lines = << >> THEN alt
    ELSE LET line == Head(lines)
         IN  IF line = << >> \/ Head(line) = "#"
                THEN copy_alternates(alt, Tail(lines))
             ELSE IF is_absolute_path(line)
                THEN copy_alternates(add_to_alternates_file(alt, line),
                                     Tail(lines))
             ELSE copy_alternates(
                      add_to_alternates_file(alt,
                          normalize_path_copy(<< >>,
                              SrcRepo \o << "objects" >> \o line)),
                      Tail(lines))

\* The directory copy_or_link_directory is reading and the entry readdir
\* returns next.
CurrentDir == lstack[Len(lstack)]
CurrentEntry == CurrentDir.dir \o << SrcTree[CurrentDir.dir][CurrentDir.next] >>
NextEntry == [lstack EXCEPT ![Len(lstack)].next = CurrentDir.next + 1]

\* clone_local that copies or links whatever --shared says.
LocCloneLocal_AlwaysCopy ==
    /\ lpc = "clone_local"
    /\ lstack' = << [dir |-> << >>, next |-> 1] >>
    /\ lpc' = "scan"
    /\ UNCHANGED << cloneVars, cfgVars, guessVars, lopt, ldest, lalt,
                    option_no_hardlinks, lstatfail >>

\* clone_local, lines 451-468, up to the first readdir.
LocCloneLocal ==
    /\ lpc = "clone_local"
    /\ IF lopt.option_shared
          THEN /\ lalt' = add_to_alternates_file(lalt,
                              SrcRepo \o << "objects" >>)
               /\ lpc' = "done"
               /\ UNCHANGED lstack
          ELSE /\ lstack' = << [dir |-> << >>, next |-> 1] >>
               /\ lpc' = "scan"
               /\ UNCHANGED lalt
    /\ UNCHANGED << cloneVars, cfgVars, guessVars, lopt, ldest,
                    option_no_hardlinks, lstatfail >>

\* Lines 436-446 with a link failure that leaves the file out.
link_or_copy_NoFallback(path, link_ok, copy_ok) ==
    IF ~option_no_hardlinks /\ link_ok
       THEN [dest |-> [ldest EXCEPT ![path] =
                          [kind |-> "link", data |-> SrcData(path)]],
             nohl |-> option_no_hardlinks, died |-> FALSE]
    ELSE IF ~option_no_hardlinks
       THEN [dest |-> [ldest EXCEPT ![path] = Absent],
             nohl |-> option_no_hardlinks, died |-> lopt.option_local]
    ELSE IF copy_ok
       THEN [dest |-> [ldest EXCEPT ![path] =
                          [kind |-> "copy", data |-> SrcData(path)]],
             nohl |-> TRUE, died |-> FALSE]
    ELSE [dest |-> [ldest EXCEPT ![path] = Absent],
          nohl |-> TRUE, died |-> TRUE]

\* Lines 436-446: unlink the destination, link, or copy when linking is
\* off or has failed once without --local.
link_or_copy(path, link_ok, copy_ok) ==
    IF ~option_no_hardlinks /\ link_ok
       THEN [dest |-> [ldest EXCEPT ![path] =
                          [kind |-> "link", data |-> SrcData(path)]],
             nohl |-> option_no_hardlinks, died |-> FALSE]
    ELSE IF ~option_no_hardlinks /\ lopt.option_local
       THEN [dest |-> [ldest EXCEPT ![path] = Absent],
             nohl |-> option_no_hardlinks, died |-> TRUE]
    ELSE IF copy_ok
       THEN [dest |-> [ldest EXCEPT ![path] =
                          [kind |-> "copy", data |-> SrcData(path)]],
             nohl |-> TRUE, died |-> FALSE]
    ELSE [dest |-> [ldest EXCEPT ![path] = Absent],
          nohl |-> TRUE, died |-> TRUE]

\* One turn of the readdir loop, lines 414-447; for a directory, the
\* opendir and mkdir of the recursive call (lines 397-408) as well.
LocReadEntry ==
    /\ lpc = "scan" /\ CurrentDir.next <= Len(SrcTree[CurrentDir.dir])
    /\ \E stat_ok \in BOOLEAN, link_ok \in BOOLEAN, copy_ok \in BOOLEAN :
        LET path == CurrentEntry
            name == path[Len(path)]
            r == link_or_copy(path, link_ok, copy_ok)
        IN  IF ~stat_ok
               THEN /\ Cardinality(lstatfail) < MaxStatFailures
                    /\ lstatfail' = lstatfail \cup {path}
                    /\ lstack' = NextEntry
                    /\ UNCHANGED << lpc, ldest, lalt, option_no_hardlinks >>
            ELSE IF path \in SrcDirs
               THEN /\ IF Head(name) # "."
                          THEN /\ lstack' = Append(NextEntry,
                                       [dir |-> path, next |-> 1])
                               /\ ldest' = [ldest EXCEPT ![path] = Directory]
                          ELSE /\ lstack' = NextEntry
                               /\ UNCHANGED ldest
                    /\ UNCHANGED << lpc, lalt, option_no_hardlinks,
                                    lstatfail >>
            ELSE IF path = InfoAlternates
               THEN /\ lalt' = copy_alternates(lalt, SrcAlternates)
                    /\ lstack' = NextEntry
                    /\ UNCHANGED << lpc, ldest, option_no_hardlinks,
                                    lstatfail >>
            ELSE /\ ldest' = r.dest
                 /\ option_no_hardlinks' = r.nohl
                 /\ lpc' = IF r.died THEN "died" ELSE lpc
                 /\ lstack' = NextEntry
                 /\ UNCHANGED << lalt, lstatfail >>
    /\ UNCHANGED << cloneVars, cfgVars, guessVars, lopt >>

\* readdir returns NULL: closedir and return, lines 414 and 448-449; the
\* outermost return ends clone_local (lines 464-471).
LocCloseDir ==
    /\ lpc = "scan" /\ CurrentDir.next > Len(SrcTree[CurrentDir.dir])
    /\ lstack' = SubSeq(lstack, 1, Len(lstack) - 1)
    /\ lpc' = IF Len(lstack) = 1 THEN "done" ELSE lpc
    /\ UNCHANGED << cloneVars, cfgVars, guessVars, lopt, ldest, lalt,
                    option_no_hardlinks, lstatfail >>

LocInit ==
    /\ CloneInit
    /\ opt = CHOOSE o \in Options : o.dest = "absent"
    /\ CfgOff /\ GuessOff
    /\ lpc = "clone_local"
    /\ lopt \in LocalOptions
    /\ lstack = << >>
    /\ ldest = DestAfterInitDb
    /\ lalt = AlternatesAfterReference(lopt)
    /\ option_no_hardlinks = lopt.option_no_hardlinks
    /\ lstatfail = {}

LocNext == LocCloneLocal \/ LocReadEntry \/ LocCloseDir

SpecLocal == LocInit /\ [][LocNext]_vars


\* --------------------------------------------------------- guess_dir_name
\* guess_dir_name over strings of characters.  start and end are the
\* offsets the C pointers have from repo: the characters between them are
\* s[start + 1] .. s[end].
MaxPieces == 3

DotGit == << ".", "g", "i", "t" >>
DotBundle == << ".", "b", "u", "n", "d", "l", "e" >>

\* What repository arguments are made of.
Pieces ==
    { << "a" >>, << "/" >>, << ":" >>, << "@" >>, << " " >>, << "1" >>,
      << ":", "/", "/" >>, DotGit, DotBundle }

RECURSIVE Concatenations(_)
Concatenations(n) ==
    IF n = 0 THEN { << >> }
    ELSE LET shorter == Concatenations(n - 1)
         IN  shorter \cup {s \o p : s \in shorter, p \in Pieces}

Repos == Concatenations(MaxPieces) \ { << >> }

GuessFlags == [is_bundle : BOOLEAN, is_bare : BOOLEAN]

is_dir_sep(c) == c = "/"
isspace(c) == c \in {" ", "\t", "\n", "\r"}
isdigit(c) == c \in {"0", "1", "2", "3", "4", "5", "6", "7", "8", "9"}
iscntrl(c) == c \in {"\t", "\n", "\r"}

\* strstr(repo, "://"), lines 185-189: the offset after the scheme.
SkipScheme(s) ==
    LET found == {i \in 1 .. Len(s) :
                     /\ i + 2 <= Len(s)
                     /\ SubSeq(s, i, i + 2) = << ":", "/", "/" >>}
    IN  IF found = {} THEN 0
        ELSE (CHOOSE i \in found : \A j \in found : i <= j) + 2

\* Lines 196-199.
RECURSIVE SkipAuthentication(_, _, _, _)
SkipAuthentication(s, ptr, start, end) ==
    IF ptr < end /\ ~is_dir_sep(s[ptr + 1])
       THEN SkipAuthentication(s, ptr + 1,
                IF s[ptr + 1] = "@" THEN ptr + 1 ELSE start, end)
       ELSE start

\* Lines 204-205.
RECURSIVE StripTrailing(_, _, _)
StripTrailing(s, start, end) ==
    IF start < end /\ (is_dir_sep(s[end]) \/ isspace(s[end]))
       THEN StripTrailing(s, start, end - 1)
       ELSE end

\* Lines 209-210.
RECURSIVE StripSeparators(_, _, _)
StripSeparators(s, start, end) ==
    IF start < end /\ is_dir_sep(s[end])
       THEN StripSeparators(s, start, end - 1)
       ELSE end

\* Lines 206-211.
StripSlashDotGit(s, start, end) ==
    IF end - start > 5 /\ is_dir_sep(s[end - 4])
          /\ SubSeq(s, end - 3, end) = DotGit
       THEN StripSeparators(s, start, end - 5)
       ELSE end

\* Lines 224-226.
RECURSIVE SkipDigits(_, _, _)
SkipDigits(s, start, ptr) ==
    IF start < ptr /\ isdigit(s[ptr]) /\ s[ptr] # ":"
       THEN SkipDigits(s, start, ptr - 1)
       ELSE ptr

\* Lines 221-229.
StripPort(s, start, end) ==
    IF /\ \A i \in start + 1 .. end : s[i] # "/"
       /\ \E i \in start + 1 .. end : s[i] = ":"
       THEN LET ptr == SkipDigits(s, start, end)
            IN  IF start < ptr /\ s[ptr] = ":" THEN ptr - 1 ELSE end
       ELSE end

\* Lines 237-240.
RECURSIVE LastComponent(_, _, _)
LastComponent(s, start, ptr) ==
    IF start < ptr /\ ~is_dir_sep(s[ptr]) /\ s[ptr] # ":"
       THEN LastComponent(s, start, ptr - 1)
       ELSE ptr

\* strip_suffix_mem, lines 245-246.
strip_suffix(str, suffix) ==
    IF Len(str) >= Len(suffix)
          /\ SubSeq(str, Len(str) - Len(suffix) + 1, Len(str)) = suffix
       THEN SubSeq(str, 1, Len(str) - Len(suffix))
       ELSE str

\* Lines 260-276: runs of control characters and whitespace become one
\* space, leading and trailing ones go.
RECURSIVE CollapseSpaces(_, _, _)
CollapseSpaces(str, out, prev_space) ==
    IF str = << >>
       THEN IF out # << >> /\ prev_space
               THEN SubSeq(out, 1, Len(out) - 1) ELSE out
       ELSE LET ch == IF iscntrl(Head(str)) THEN " " ELSE Head(str)
            IN  IF isspace(ch)
                   THEN IF prev_space
                           THEN CollapseSpaces(Tail(str), out, TRUE)
                           ELSE CollapseSpaces(Tail(str), Append(out, ch),
                                               TRUE)
                   ELSE CollapseSpaces(Tail(str), Append(out, ch), FALSE)

\* guess_dir_name, lines 176-279; died stands for the die of line 249.
guess_dir_name(repo, is_bundle, is_bare) ==
    LET start0 == SkipScheme(repo)
        start1 == SkipAuthentication(repo, start0, start0, Len(repo))
        end1 == StripTrailing(repo, start1, Len(repo))
        end2 == StripSlashDotGit(repo, start1, end1)
        end3 == StripPort(repo, start1, end2)
        start2 == LastComponent(repo, start1, end3)
        name == strip_suffix(SubSeq(repo, start2 + 1, end3),
                             IF is_bundle THEN DotBundle ELSE DotGit)
    IN  IF name = << >> \/ name = << "/" >>
           THEN [died |-> TRUE, dir |-> << >>]
           ELSE [died |-> FALSE,
                 dir |-> CollapseSpaces(
                             IF is_bare THEN name \o DotGit ELSE name,
                             << >>, TRUE)]

\* cmd_clone, line 1256: dir = guess_dir_name(repo_name, is_bundle,
\* option_bare).
GuessDirName ==
    /\ gpc = "input"
    /\ LET r == guess_dir_name(grepo, gflags.is_bundle, gflags.is_bare)
       IN  IF r.died THEN gpc' = "died" /\ UNCHANGED gdir
                     ELSE gpc' = "guessed" /\ gdir' = r.dir
    /\ UNCHANGED << cloneVars, cfgVars, localVars, grepo, gflags, gdir2 >>

\* The guessed name given as the repository argument, with the same flags.
GuessAgain ==
    /\ gpc = "guessed"
    /\ LET r == guess_dir_name(gdir, gflags.is_bundle, gflags.is_bare)
       IN  IF r.died THEN gpc' = "died again" /\ UNCHANGED gdir2
                     ELSE gpc' = "guessed again" /\ gdir2' = r.dir
    /\ UNCHANGED << cloneVars, cfgVars, localVars, grepo, gflags, gdir >>

GuessInit ==
    /\ CloneInit
    /\ opt = CHOOSE o \in Options : o.dest = "absent"
    /\ CfgOff /\ LocOff
    /\ gpc = "input"
    /\ grepo \in Repos
    /\ gflags \in GuessFlags
    /\ gdir = << >>
    /\ gdir2 = << >>

GuessNext == GuessDirName \/ GuessAgain

SpecGuess == GuessInit /\ [][GuessNext]_vars


\* ------------------------------------------------------------- properties
Terminated == status # "running"

\* The process ended through the junk tracker: by exit() or by a signal
\* that remove_junk_on_signal raised again.
EndedByExitOrSignal == status \in {"exited", "signaled"}

\* The disk, the ResumeRecord aside, is as it was when the cleanup started.
CleanupLeftInPlace ==
    /\ exists = pre.exists
    /\ primer = pre.primer
    /\ temp_refs = pre.temp_refs
    /\ ref_store = pre.mapped
    /\ head_installed = pre.head
    /\ config = pre.config

\* The run stopped inside fetch_alt_resource (line 1462): junk_mode is
\* JUNK_LEAVE_RESUMABLE and the call has not returned.
StoppedInDownload == Terminated /\ pc \in {"fetch_alt", "download"}

MidAdoption ==
    IF opt.resume
       THEN /\ disk0.record # NoFile
            /\ pc \in {"options", "resume_state", "resume_mode",
                       "resume_handlers", "transport", "prime", "get_refs",
                       "plan_refs", "early_fetch", "refspec_config",
                       "alt_begin", "fetch_alt", "download", "use_alt",
                       "bundle_refs", "abandon", "transfer",
                       "update_remote_refs", "update_head", "disconnect",
                       "clean_done"}
       ELSE /\ alt_res # NoRes
            /\ pc \in {"fetch_alt", "download", "use_alt", "bundle_refs",
                       "abandon", "transfer", "update_remote_refs",
                       "update_head", "disconnect", "clean_done"}

\* C2 as stated: after any run has ended, the ResumeRecord exists if and
\* only if the run ended in the middle of the primer adoption.  Runs in
\* which write_resumable_resource died are left aside: they break the
\* claim too, but only by a failed open or write.
C2_Original ==
    Terminated /\ ~write_failed => ((record # NoFile) <=> MidAdoption)

C4_ResumeWithoutRecord ==
    opt.resume /\ disk0.record = NoFile =>
        /\ Disk = disk0
        /\ pc \in {"options", "resume_state"}
        /\ ~handlers
        /\ Terminated => status = "exited" /\ cause = "die"
                          /\ exit_code = 128

C4_Witness ==
    /\ opt.resume /\ opt.dest = "repo" /\ disk0.record = NoFile
    /\ pc = "resume_state" /\ status = "exited" /\ cause = "die"
    /\ Disk = disk0 /\ "dir" \in exists

\* C5 as stated: no signal starts remove_junk while another activation of
\* remove_junk, begun by exit() or by a signal handler, is still inside it.
C5_Original ==
    \A i \in InRemoveJunk : \A j \in InRemoveJunk :
        i < j => stack[j].kind # "signal"

\* C6 as stated: a process to which a fatal signal was delivered after the
\* handler was installed ends by a signal that was delivered to it, never
\* by an exit code.
C6_Original ==
    Terminated /\ delivered # {} =>
        status = "signaled" /\ exit_sig \in delivered

\* C7: when the process ends by exit() or by a handled signal while
\* junk_mode is JUNK_LEAVE_NONE, neither junk_git_dir nor junk_work_tree,
\* where set, is left on disk.
C7_NoneRemovesJunk ==
    EndedByExitOrSignal /\ junk_mode = "JUNK_LEAVE_NONE" =>
        /\ junk_git_dir # NoPath => junk_git_dir \notin exists
        /\ junk_work_tree # NoPath => junk_work_tree \notin exists

C7_Witness ==
    /\ EndedByExitOrSignal /\ junk_mode = "JUNK_LEAVE_NONE"
    /\ junk_git_dir = "real" /\ junk_work_tree = "dir"
    /\ pre.exists = {"dir", "dir/.git", "real"}
    /\ pre.config # {}
    /\ exists = {} /\ config = {}

\* C8 as stated: a fresh clone that a fatal error or a signal ends after
\* the handlers are installed, in JUNK_LEAVE_NONE, leaves none of the
\* directories it created.
C8_Original ==
    /\ EndedByExitOrSignal /\ ~opt.resume /\ handlers
    /\ cause \in {"die", "signal"} /\ junk_mode = "JUNK_LEAVE_NONE"
    => created \cap exists = {}

\* The changes of junk_mode the specification lists.
AllowedMoves ==
    { << "JUNK_LEAVE_NONE", "JUNK_LEAVE_RESUMABLE" >>,
      << "JUNK_LEAVE_RESUMABLE", "JUNK_LEAVE_NONE" >>,
      << "JUNK_LEAVE_NONE", "JUNK_LEAVE_REPO" >>,
      << "JUNK_LEAVE_RESUMABLE", "JUNK_LEAVE_REPO" >>,
      << "JUNK_LEAVE_REPO", "JUNK_LEAVE_ALL" >> }

\* C9: junk_mode changes only along the listed transitions: to
\* JUNK_LEAVE_RESUMABLE when a resume starts or the primer adoption is
\* entered, back to JUNK_LEAVE_NONE only in a run that is not a resume, to
\* JUNK_LEAVE_REPO only once update_remote_refs and update_head have
\* installed the mapped refs and HEAD, and from JUNK_LEAVE_REPO only to
\* JUNK_LEAVE_ALL.
C9_Transitions ==
    [][ junk_mode' # junk_mode =>
          /\ << junk_mode, junk_mode' >> \in AllowedMoves
          /\ junk_mode' = "JUNK_LEAVE_RESUMABLE" =>
                 pc \in {"resume_mode", "alt_begin"}
          /\ junk_mode' = "JUNK_LEAVE_NONE" => ~opt.resume /\ pc = "abandon"
          /\ junk_mode' = "JUNK_LEAVE_REPO" =>
                 /\ pc = "leave_repo"
                 /\ refs # "none" => mapped_installed /\ head_installed
    ]_vars

C9_Witness ==
    /\ mode_moves = { << "JUNK_LEAVE_NONE", "JUNK_LEAVE_RESUMABLE" >>,
                      << "JUNK_LEAVE_RESUMABLE", "JUNK_LEAVE_NONE" >>,
                      << "JUNK_LEAVE_NONE", "JUNK_LEAVE_REPO" >>,
                      << "JUNK_LEAVE_REPO", "JUNK_LEAVE_ALL" >> }
    /\ junk_mode = "JUNK_LEAVE_ALL" /\ mapped_installed /\ head_installed

\* C10 as stated: once checkout has returned a non-zero result, junk_mode
\* is JUNK_LEAVE_REPO for the rest of the run.
C10_Original ==
    checkout_ret /\ err # 0 => junk_mode = "JUNK_LEAVE_REPO"

\* C10 as amended: junk_mode becomes JUNK_LEAVE_ALL only after checkout
\* has returned, and then whatever it returned: a run whose cmd_clone
\* returns ends in JUNK_LEAVE_ALL with err as exit code and without the
\* checkout-failed note.  junk_mode stays JUNK_LEAVE_REPO to the end, and
\* the cleanup emits that note, when the process ends before checkout
\* returns.
C10_LeaveAllAfterCheckoutReturns ==
    /\ junk_mode = "JUNK_LEAVE_ALL" => checkout_ret
    /\ status = "exited" /\ cause = "return" =>
           /\ junk_mode = "JUNK_LEAVE_ALL"
           /\ exit_code = err
           /\ "junk_leave_repo_msg" \notin warned
    /\ EndedByExitOrSignal /\ pc = "checkout" =>
           /\ junk_mode = "JUNK_LEAVE_REPO"
           /\ "junk_leave_repo_msg" \in warned

C10_Witness ==
    /\ status = "exited" /\ cause = "return"
    /\ checkout_ret /\ err = 1 /\ exit_code = 1
    /\ junk_mode = "JUNK_LEAVE_ALL"
    /\ "junk_leave_repo_msg" \notin warned

\* checkout has failed: it died (lines 757, 779, 782) or it returned a
\* non-zero result (lines 784-790).
CheckoutFailed ==
    \/ pc = "checkout" /\ cause = "die"
    \/ checkout_ret /\ err # 0

\* C11: when checkout fails after the mapped refs and HEAD were installed,
\* the process ends with a non-zero status (a non-zero exit code, or a
\* signal that arrived afterwards), and the git directory, the work tree,
\* the mapped refs and HEAD are all still there.
C11_CheckoutFailureLeavesRepo ==
    Terminated /\ CheckoutFailed =>
        /\ EndedByExitOrSignal
        /\ status = "exited" => exit_code # 0
        /\ GitDir \in exists
        /\ WorkTree # NoPath => WorkTree \in exists
        /\ mapped_installed /\ head_installed
        /\ config = pre.config

C11_Witness ==
    /\ status = "exited" /\ pc = "checkout" /\ cause = "die"
    /\ exit_code = 128 /\ junk_mode = "JUNK_LEAVE_REPO"
    /\ ~opt.resume /\ WorkTree = "dir"
    /\ exists = {"dir", "dir/.git"}
    /\ mapped_installed /\ head_installed

\* This run's update_remote_refs has returned and the repository is there.
InstalledByRun ==
    /\ pc \in {"update_head", "disconnect", "clean_done", "leave_repo",
               "checkout", "unlink_resumable", "leave_all", "return", "done"}
    /\ refs # "none" /\ GitDir \in exists

\* C12 as stated: a reader of the ref store sees every mapped peer name
\* with the advertised object id, or none of them: at every point of a
\* fresh run, and in a resumed run at every point after its own
\* installation (before it, the reader sees what the interrupted run left).
C12_Original ==
    ~opt.resume \/ InstalledByRun =>
        ref_store \in {NoRefs, AllAdvertised}

\* The primer was accepted: use_alt_resource has returned 0 (line 1463).
PrimerAccepted == pc = "transfer" /\ alt_res # NoRes

\* C13 as stated: when a primer has been accepted, its temporary refs are
\* in the ref store and no object fetch of the transport has begun; and
\* temporary refs are deleted only after line 1477.
C13_Original ==
    /\ PrimerAccepted => Tips \subseteq temp_refs /\ fetched = 0
    /\ temp_deleted # {} =>
           pc \in {"clean_done", "leave_repo", "checkout",
                   "unlink_resumable", "leave_all", "return", "done"}

\* The primer has reached Done: clean_alt_resource(resource_path, 1) has
\* returned (line 1493).
PrimerDone ==
    /\ pc \in {"leave_repo", "checkout", "unlink_resumable", "leave_all",
               "return", "done"}
    /\ alt_res # NoRes /\ resource_path = "pack"

FellBack ==
    /\ ~opt.resume /\ pc \in {"abandon_reset", "transfer"}
    /\ << "JUNK_LEAVE_RESUMABLE", "JUNK_LEAVE_NONE" >> \in mode_moves

\* C15 as stated: after a failed download, indexing or installation in a
\* run that is not a resume, junk_mode is JUNK_LEAVE_NONE again, none of
\* the primer's files is left, and the run goes on without primer.
C15_Original ==
    FellBack =>
        /\ junk_mode = "JUNK_LEAVE_NONE"
        /\ primer = {}
        /\ temp_refs = {}
        /\ pc = "transfer" => alt_res = NoRes /\ resource_path = NoPath

\* A resumed run has died of the failure of its primer (line 1465).
ResumeAbandoned ==
    opt.resume /\ pc = "abandon" /\ Terminated /\ cause = "die"

\* C16 as stated: a resumed run whose primer fails ends with an error, has
\* transferred no objects and installed no ref, has deleted no primer
\* file, and leaves the ResumeRecord.
C16_Original ==
    ResumeAbandoned =>
        /\ EndedByExitOrSignal
        /\ status = "exited" => exit_code = 128
        /\ fetched = 0
        /\ ref_store = disk0.mapped /\ head_installed = disk0.head
        /\ temp_refs = disk0.temp_refs
        /\ primer = pre.primer /\ disk0.primer \ {"temp"} \subseteq primer
        /\ record # NoFile

\* write_bundle_refs has returned -1: the pack was fetched and indexed,
\* and use_alt_resource failed all the same.
InstallFailed ==
    pc = "abandon" /\ resource_path = "pack" /\ "bndl" \in primer

C18_Original == MainRuns => record = NoFile

\* C18 as amended: in a run that is not a resume there is no ResumeRecord
\* while the main program runs; a resumed run starts with the
\* ResumeRecord of the interrupted run and keeps it, unchanged, until the
\* unlink of line 1500.  Only a cleanup creates or writes the file.
C18_RecordOnlyFromCleanup ==
    /\ MainRuns /\ ~opt.resume => record = NoFile
    /\ MainRuns /\ opt.resume =>
           IF pc \in {"leave_all", "return"} THEN record = NoFile
           ELSE record = disk0.record
    /\ cause = "none" => record = disk0.record \/ record = NoFile

C18_Witness ==
    /\ MainRuns /\ ~opt.resume /\ pc = "transfer"
    /\ alt_res # NoRes /\ junk_mode = "JUNK_LEAVE_RESUMABLE"
    /\ record = NoFile /\ GitDir \in exists

\* C19: a ResumeRecord written for a primer reads back as that primer;
\* the record a run's cleanup has written reads back as the primer the run
\* was adopting; and a resumed run holds, from line 1247 to its end, the
\* primer read from the ResumeRecord it started with: transport_prime_clone
\* (line 1400) never replaces it.
C19_ResumeUsesRecordedPrimer ==
    /\ \A res \in Resources :
           get_last_alt_resource(
               WriteInFull(EmptyFile, ResumableContent(res))) = res
    /\ Terminated /\ ~write_failed /\ record # NoFile
       /\ "junk_leave_resumable_msg" \in warned =>
           get_last_alt_resource(record) = alt_res
    /\ opt.resume /\ pc \notin {"options", "resume_state"} =>
           alt_res = get_last_alt_resource(disk0.record)

C19_Witness ==
    /\ opt.resume /\ pc = "use_alt" /\ resource_path = "pack"
    /\ disk0.record = << "u", LF, "p", "a", "c", "k", LF >>
    /\ alt_res = [url |-> << "u" >>, filetype |-> PackType]
    /\ Terminated /\ "junk_leave_resumable_msg" \in warned
    /\ record = disk0.record


WrittenRefspec ==
    RefspecValue(copt, our_head_points_at(copt), remote_head_points_at(copt))

\* The remote name, fetch pattern, mirror flag and bare flag of the
\* interrupted run: the pattern it wrote to the configuration or, when it
\* wrote none, the one it fetched with.
InterruptedRunConfig ==
    [option_origin |-> option_origin(copt),
     fetch_pattern |-> IF WrittenRefspec # << >> THEN WrittenRefspec
                                                 ELSE fetch_pattern(copt),
     option_mirror |-> copt.option_mirror,
     option_bare |-> copt.option_bare]

\* C20: for every combination of --origin, --bare, --mirror,
\* --single-branch, --branch and -c of the interrupted run, the resumed run
\* recovers the remote name, fetch pattern, mirror flag and bare flag the
\* interrupted run used and wrote to the configuration.
C20_Original ==
    cpc = "resumed" => Resumed(past_info) = InterruptedRunConfig


UpToSetupReference ==
    {"options", "plan", "handlers", "mkdir_wt", "junk_wt", "junk_git_dir",
     "set_git_dir", "init_db", "write_config", "setup_reference"}

C22_NonEmptyDestinationUntouched ==
    opt.dest = "nonempty" =>
        /\ Disk = disk0 /\ created = {}
        /\ pc \in {"options", "plan"}
        /\ ~handlers /\ stack = << >>
        /\ Terminated => status = "exited" /\ cause = "die"
                          /\ exit_code = 128

C22_Witness ==
    /\ opt.dest = "nonempty" /\ pc = "plan" /\ ~opt.bare
    /\ status = "exited" /\ cause = "die" /\ exit_code = 128
    /\ exists = {"dir", "dir/file"} /\ Disk = disk0


\* cmd_clone is past the object transfer of lines 1474-1477.
AfterTransfer ==
    pc \in {"update_remote_refs", "update_head", "disconnect", "clean_done",
            "leave_repo", "checkout", "unlink_resumable", "leave_all",
            "return", "done"}

\* cmd_clone is past lines 1421-1422, where the early fetch is.
AfterEarlyFetch ==
    pc \in {"refspec_config", "alt_begin", "fetch_alt", "download", "use_alt",
            "bundle_refs", "abandon", "clean_abandon", "abandon_reset",
            "transfer"}

\* C27: with a non-empty advertisement the objects are transferred once:
\* by clone_local for a local source, else by one transport fetch, done at
\* lines 1421-1422 (before the remote HEAD is looked up) when a ref has a
\* null object id and at line 1477 otherwise; and this run installs mapped
\* refs only after that transfer.
C27_OneTransferBeforeInstall ==
    /\ refs # "none" /\ AfterTransfer =>
           /\ fetched + cloned_local = 1
           /\ cloned_local = 1 <=> is_local
    /\ refs # "none" /\ ~AfterTransfer =>
           /\ cloned_local = 0
           /\ fetched = IF ~is_local /\ refs = "nullid" /\ AfterEarlyFetch
                            THEN 1 ELSE 0
    /\ ref_store # disk0.mapped =>
           /\ AfterTransfer /\ pc # "update_remote_refs"
           /\ fetched + cloned_local = 1

C27_Witness ==
    /\ refs = "nullid" /\ ~is_local /\ ~opt.resume
    /\ pc = "done" /\ status = "exited" /\ exit_code = 0
    /\ fetched = 1 /\ cloned_local = 0
    /\ ref_store = AllAdvertised /\ disk0.mapped = NoRefs

\* C30: while junk_mode is JUNK_LEAVE_RESUMABLE, alt_res is not NULL:
\* the cleanup that writes the ResumeRecord has a URL and a filetype.
C30_ResumableHasPrimer ==
    junk_mode = "JUNK_LEAVE_RESUMABLE" => alt_res # NoRes

C30_Witness ==
    /\ junk_mode = "JUNK_LEAVE_RESUMABLE" /\ alt_res \in Resources
    /\ ~opt.resume /\ status = "signaled" /\ pc = "use_alt"
    /\ pre.record = NoFile /\ record = ResumableContent(alt_res)


\* C29 as stated: every run that is not a resume has an entry
\* remote.<origin>.fetch in the configuration file once
\* write_refspec_config has returned, before the primer download starts.
C29_Original ==
    cpc \notin {"write_config", "core_bare", "remote_url", "refspec"} =>
        \E i \in DOMAIN config_file :
            config_file[i].key = RemoteKey(option_origin(copt), "fetch")

\* C26 as stated: in every non-bare run, resumed ones included, in which
\* the remote HEAD resolves to a mapped branch, update_remote_refs creates
\* the symbolic ref refs/remotes/<origin>/HEAD pointing at that branch's
\* peer name.
C26_Original ==
    cpc = "update_head" /\ ~copt.option_bare
            /\ CurrentRun.remote_head_points_at # NullStr =>
        ref_writes =
            << [name |-> << "refs/", "remotes/", option_origin(copt), "/",
                            "HEAD" >>,
                kind |-> "symref",
                target |-> << "refs/", "remotes/", option_origin(copt), "/" >>
                               \o skip_prefix(copt.remote_head, RefsHeads)] >>

\* What update_head has written last.
LastWrite == ref_writes[Len(ref_writes)]

IsBranch(ref) == ref # NullStr /\ starts_with(ref, RefsHeads)

HeadWrittenFor(our) ==
    LastWrite =
        IF IsBranch(our)
           THEN [name |-> << "HEAD" >>, kind |-> "symref", target |-> our]
        ELSE IF our # NullStr
           THEN [name |-> << "HEAD" >>, kind |-> "detached",
                 target |-> << "commit of " >> \o our]
        ELSE [name |-> << "HEAD" >>, kind |-> "detached",
              target |-> << "object of ", "HEAD" >>]

\* C28 as stated: after update_head, a chosen ref under refs/heads/ has
\* HEAD a symbolic ref to it and the branch's tracking configuration
\* installed, for bare and non-bare clones alike; a chosen ref that is not
\* a branch has HEAD detached at its commit; no chosen ref has HEAD
\* detached at the remote HEAD's object.
C28_Original ==
    cpc = "cloned" =>
        /\ HeadWrittenFor(CurrentRun.our_head_points_at)
        /\ branch_config =
               IF IsBranch(CurrentRun.our_head_points_at)
                  THEN {skip_prefix(CurrentRun.our_head_points_at, RefsHeads)}
                  ELSE {}

\* C28 as amended: after update_head, a chosen ref under refs/heads/ has
\* HEAD a symbolic ref to it, and the branch's tracking configuration is
\* installed when the clone is not bare and is not installed when it is
\* bare; a chosen ref that is not a branch has HEAD detached at its commit
\* and no tracking configuration; no chosen ref has HEAD detached at the
\* remote HEAD's object and no tracking configuration.
C28_UpdateHead ==
    cpc = "cloned" =>
        /\ HeadWrittenFor(CurrentRun.our_head_points_at)
        /\ branch_config =
               IF IsBranch(CurrentRun.our_head_points_at)
                      /\ ~CurrentRun.option_bare
                  THEN {skip_prefix(CurrentRun.our_head_points_at, RefsHeads)}
                  ELSE {}

C28_Witness ==
    /\ cpc = "cloned" /\ copt.option_bare /\ CurrentRun.option_bare
    /\ IsBranch(CurrentRun.our_head_points_at)
    /\ LastWrite.kind = "symref" /\ branch_config = {}


\* C23: a local clone with --shared adds exactly one entry, the source's
\* object directory, to the destination's alternates file (after the
\* entries --reference put there), and copies or links nothing.
C23_SharedAddsOneAlternate ==
    lopt.option_shared /\ lpc = "done" =>
        /\ lalt = Append(AlternatesAfterReference(lopt),
                         << "/", "src", "objects" >>)
        /\ ldest = DestAfterInitDb

C23_Witness ==
    /\ lopt.option_shared /\ lopt.reference /\ lpc = "done"
    /\ Len(lalt) = Len(AlternatesAfterReference(lopt)) + 1
    /\ \A p \in RegularFiles : ldest[p].kind = "absent"

\* C24 as stated: when a local clone without --shared and without
\* --no-hardlinks finishes, every regular file at any depth under the
\* source's object directory has a hardlink or a byte-identical copy at
\* the same relative path in the destination's object directory.
C24_Original ==
    lpc = "done" /\ ~lopt.option_shared /\ ~lopt.option_no_hardlinks =>
        \A p \in RegularFiles :
            /\ ldest[p].kind \in {"link", "copy"}
            /\ ldest[p].data = SrcData(p)

\* The directories above a path, and the path itself.
Prefixes(path) == {SubSeq(path, 1, n) : n \in 1 .. Len(path)}

\* Below a directory whose name starts with a dot.
InDotDirectory(path) ==
    \E d \in Prefixes(path) : d \in SrcDirs /\ Head(d[Len(d)]) = "."

\* C24 as amended: when a local clone without --shared and without
\* --no-hardlinks finishes, every regular file under the source's object
\* directory that is not info/alternates, is not below a directory whose
\* name starts with a dot, and whose stat and whose directories' stats
\* succeeded has a hardlink or a byte-identical copy at the same relative
\* path in the destination, a hardlink when --local was given; the files
\* below dot directories and those whose stat failed are not in the
\* destination, and info/alternates is not copied: its entries are added
\* to the destination's alternates file with relative paths made absolute.
C24_CopiedOrLinked ==
    lpc = "done" /\ ~lopt.option_shared /\ ~lopt.option_no_hardlinks =>
        /\ \A p \in RegularFiles \ {InfoAlternates} :
              IF InDotDirectory(p) \/ Prefixes(p) \cap lstatfail # {}
                 THEN ldest[p] = Absent
                 ELSE /\ ldest[p].kind \in {"link", "copy"}
                      /\ ldest[p].data = SrcData(p)
                      /\ lopt.option_local => ldest[p].kind = "link"
        /\ ldest[InfoAlternates] = Absent
        /\ Prefixes(InfoAlternates) \cap lstatfail = {} =>
              lalt = AlternatesAfterReference(lopt)
                         \o << << "/", "srv", "objects" >>,
                               << "/", "other", "objects" >> >>

C24_Witness ==
    /\ lpc = "done" /\ ~lopt.option_shared /\ ~lopt.option_no_hardlinks
    /\ ldest[<< << "ab" >>, << "cd" >>, << "o2" >> >>].kind = "copy"
    /\ ldest[<< << "pack" >>, << "p1" >> >>].kind = "link"
    /\ ldest[<< DotTmp, << "t1" >> >>] = Absent
    /\ Len(lalt) > Len(AlternatesAfterReference(lopt))


\* C25 as stated: guess_dir_name is idempotent: for every repository
\* string for which a name is guessed, guessing from that name with the
\* same is_bundle and is_bare guesses the same name.
C25_Original ==
    gpc \in {"guessed again", "died again"} =>
        gpc = "guessed again" /\ gdir2 = gdir


\* C31 as stated: the primer's Done cleanup runs only in a run that
\* downloaded and installed a primer; in a run to which no primer was
\* offered (local source, --reference, or a transport that has none) line
\* 1492 reads no primer path and calls no primer cleanup: the path it
\* tests is NULL, and the process does not end inside clean_alt_resource.
C31_Original ==
    pc = "clean_done" =>
        /\ alt_res = NoRes => resource_path = NoPath
        /\ alt_res # NoRes => resource_path = "pack"
        /\ status # "crashed"


\* C32: a --resume invocation registers no junk path, never has junk_mode
\* JUNK_LEAVE_NONE once the cleanup handlers are installed, and never
\* deletes a destination directory, however it ends (return, die at any
\* step, or a signal at any point).
C32_ResumeNeverDeletes ==
    opt.resume =>
        /\ junk_git_dir = NoPath /\ junk_work_tree = NoPath
        /\ handlers => junk_mode # "JUNK_LEAVE_NONE"
        /\ exists = disk0.exists

C32_Witness ==
    /\ opt.resume /\ handlers /\ status = "signaled" /\ delivered # {}
    /\ junk_mode = "JUNK_LEAVE_RESUMABLE"
    /\ "dir" \in exists /\ exists = disk0.exists

=============================================================================
